---- MODULE Spec2Model ----
(***************************************************************************)
(* A model of rhasspysupervisor: the translation of a Rhasspy profile into *)
(* a supervisord configuration (profile_to_conf) and a docker-compose      *)
(* document (profile_to_docker), as driven by the command line (main).     *)
(*                                                                         *)
(* Representation.  A Python string is a sequence of atoms.  An atom is a  *)
(* TLA+ string: either one character ("a", ",", " ", "'") or a literal     *)
(* word of the source that consists of shell-safe characters only          *)
(* ("--debug", "localhost").  A token of a command is such a string, a     *)
(* command is a sequence of tokens, a line of a file is a string and a     *)
(* file is a sequence of lines.                                            *)
(***************************************************************************)
EXTENDS Integers, Sequences, FiniteSets, TLC

VARIABLES
    profile,      \* the Profile object handed to both translations
    env,          \* what the builders read of the machine (directories, PATH)
    pc,           \* position of main / of the function under test
    loc,          \* locals of the running translation (broker settings, site ids)
    conf_file,    \* the supervisord conf file: [exists, lines]
    yml_file,     \* the compose file: [exists, dumped, services]
    services,     \* the services dict profile_to_docker builds
    invoked,      \* the builders called so far by the running translation
    std_in,       \* arguments of the add_standard_args call under test
    std_out       \* tokens appended by that call

vars == <<profile, env, pc, loc, conf_file, yml_file, services, invoked, std_in, std_out>>

-----------------------------------------------------------------------------
(* Python strings *)

\* characters that str.strip() removes
Whitespace == {" ", "\t"}

\* single characters outside shlex's safe class [A-Za-z0-9_@%+=:,./-]
UnsafeChars == {" ", "\t", "'", "\"", "$", "{", "}", "|", "(", ")", "\\", "*", ";", "&", "<", ">", "!", "#", "?", "[", "]", "~"}

Digits == <<"0", "1", "2", "3", "4", "5", "6", "7", "8", "9">>

DigitSet == {Digits[i] : i \in 1..10}

DigitValue(c) == (CHOOSE i \in 1..10 : Digits[i] = c) - 1

RECURSIVE IntToStr(_)
\* str(n) for an int n >= 0
IntToStr(n) == IF n < 10 THEN <<Digits[n + 1]>> ELSE IntToStr(n \div 10) \o <<Digits[(n % 10) + 1]>>

\* str(n) for any int n
IntStr(n) == IF n < 0 THEN <<"-">> \o IntToStr(0 - n) ELSE IntToStr(n)

RECURSIVE LStrip(_)
LStrip(s) == IF s # <<>> /\ Head(s) \in Whitespace THEN LStrip(Tail(s)) ELSE s

RECURSIVE RStrip(_)
RStrip(s) == IF s # <<>> /\ s[Len(s)] \in Whitespace THEN RStrip(SubSeq(s, 1, Len(s) - 1)) ELSE s

\* str.strip()
Strip(s) == RStrip(LStrip(s))

RECURSIVE SplitFrom(_, _, _)
SplitFrom(s, sep, cur) ==
    IF s = <<>> THEN <<cur>>
    ELSE IF Head(s) = sep THEN <<cur>> \o SplitFrom(Tail(s), sep, <<>>)
    ELSE SplitFrom(Tail(s), sep, Append(cur, Head(s)))

\* str.split(sep): always at least one field, empty fields kept
Split(s, sep) == SplitFrom(s, sep, <<>>)

RECURSIVE Join(_, _)
\* sep.join(parts)
Join(parts, sep) ==
    IF parts = <<>> THEN <<>>
    ELSE IF Len(parts) = 1 THEN parts[1]
    ELSE Join(SubSeq(parts, 1, Len(parts) \div 2), sep) \o sep
         \o Join(SubSeq(parts, (Len(parts) \div 2) + 1, Len(parts)), sep)

LowerChar(c) ==
    CASE c = "T" -> "t" [] c = "R" -> "r" [] c = "U" -> "u" [] c = "E" -> "e"
      [] c = "F" -> "f" [] c = "A" -> "a" [] c = "L" -> "l" [] c = "S" -> "s"
      [] c = "N" -> "n" [] c = "O" -> "o" [] OTHER -> c

\* str.lower()
Lower(s) == [i \in 1..Len(s) |-> LowerChar(s[i])]

\* int(s) accepts surrounding whitespace, an optional sign and decimal digits
IsIntStr(s) ==
    LET t == Strip(s)
        d == IF t # <<>> /\ Head(t) \in {"+", "-"} THEN Tail(t) ELSE t
    IN  d # <<>> /\ \A i \in 1..Len(d) : d[i] \in DigitSet

RECURSIVE DigitsToInt(_)
DigitsToInt(d) == IF d = <<>> THEN 0 ELSE 10 * DigitsToInt(SubSeq(d, 1, Len(d) - 1)) + DigitValue(d[Len(d)])

ParseInt(s) ==
    LET t == Strip(s)
    IN  IF Head(t) = "-" THEN 0 - DigitsToInt(Tail(t))
        ELSE IF Head(t) = "+" THEN DigitsToInt(Tail(t))
        ELSE DigitsToInt(t)

RECURSIVE EscapeQuotes(_)
\* s.replace("'", "'\"'\"'")
EscapeQuotes(s) ==
    IF s = <<>> THEN <<>>
    ELSE IF Len(s) = 1 THEN (IF s[1] = "'" THEN <<"'", "\"", "'", "\"", "'">> ELSE s)
    ELSE EscapeQuotes(SubSeq(s, 1, Len(s) \div 2)) \o EscapeQuotes(SubSeq(s, (Len(s) \div 2) + 1, Len(s)))

\* shlex.quote
quote(s) ==
    IF s = <<>> THEN <<"'", "'">>
    ELSE IF \A i \in 1..Len(s) : s[i] \notin UnsafeChars THEN s
    ELSE <<"'">> \o EscapeQuotes(s) \o <<"'">>

\* a literal word of the source as a string
W(word) == <<word>>

-----------------------------------------------------------------------------
(* Profile values: None, bool, int, str, list of str, dict *)

None == [t |-> "none", b |-> FALSE, n |-> 0, s |-> <<>>, m |-> <<>>, d |-> <<>>]

B(b) == [t |-> "bool", b |-> b, n |-> 0, s |-> <<>>, m |-> <<>>, d |-> <<>>]

N(n) == [t |-> "int", b |-> FALSE, n |-> n, s |-> <<>>, m |-> <<>>, d |-> <<>>]

S(s) == [t |-> "str", b |-> FALSE, n |-> 0, s |-> s, m |-> <<>>, d |-> <<>>]

\* a float, kept as its repr
F(repr) == [t |-> "float", b |-> FALSE, n |-> 0, s |-> repr, m |-> <<>>, d |-> <<>>]

\* a list of strings
Lst(l) == [t |-> "list", b |-> FALSE, n |-> 0, s |-> <<>>, m |-> l, d |-> <<>>]

\* a dict, as the sequence of its (key, value) items in insertion order
Dict(items) == [t |-> "dict", b |-> FALSE, n |-> 0, s |-> <<>>, m |-> <<>>, d |-> items]

\* Python truth value
Truthy(v) ==
    CASE v.t = "none" -> FALSE
      [] v.t = "bool" -> v.b
      [] v.t = "int" -> v.n # 0
      [] v.t = "str" -> v.s # <<>>
      [] v.t = "float" -> v.s \notin {<<"0", ".", "0">>, <<"-", "0", ".", "0">>}
      [] v.t = "dict" -> v.d # <<>>
      [] OTHER -> v.m # <<>>

\* str(v)
Str(v) ==
    CASE v.t = "none" -> <<"N", "o", "n", "e">>
      [] v.t = "bool" -> (IF v.b THEN <<"T", "r", "u", "e">> ELSE <<"F", "a", "l", "s", "e">>)
      [] v.t = "int" -> IntStr(v.n)
      [] v.t \in {"str", "float"} -> v.s
      [] OTHER -> <<"<", "obj", ">">>

\* dict.get(key, default) on the items of a dict
DictGet(items, key, default) ==
    IF \E i \in 1..Len(items) : items[i][1] = key
    THEN items[CHOOSE i \in 1..Len(items) : items[i][1] = key][2]
    ELSE default

DictHas(items, key) == \E i \in 1..Len(items) : items[i][1] = key

\* d[key] = value: an existing key keeps its place, a new key goes last
DictSet(items, key, value) ==
    IF DictHas(items, key)
    THEN [i \in 1..Len(items) |-> IF items[i][1] = key THEN <<key, value>> ELSE items[i]]
    ELSE Append(items, <<key, value>>)

\* profile.get(path, default): the default when the path is not set
Get(p, path, default) == IF path \in DOMAIN p /\ p[path].t # "none" THEN p[path] ELSE default

-----------------------------------------------------------------------------
(* Arguments shared by every service *)

\* one optional TLS setting: nothing when it is unset or empty
TlsOption(p, path, flag) ==
    IF Truthy(Get(p, path, None)) THEN <<W(flag), quote(Str(Get(p, path, None)))>> ELSE <<>>

RECURSIVE SiteIdArgsBlank(_)
\* the site id loop without the strip and the blank test
SiteIdArgsBlank(site_ids) ==
    IF site_ids = <<>> THEN <<>>
    ELSE <<W("--site-id"), quote(Head(site_ids))>> \o SiteIdArgsBlank(Tail(site_ids))

RECURSIVE SiteIdArgs(_)
\* the loop over site_ids of add_standard_args
SiteIdArgs(site_ids) ==
    IF site_ids = <<>> THEN <<>>
    ELSE (IF Strip(Head(site_ids)) # <<>> THEN <<W("--site-id"), quote(Strip(Head(site_ids)))>> ELSE <<>>)
         \o SiteIdArgs(Tail(site_ids))

\* the TLS block with the key file ahead of the certificate file
TlsArgsSwapped(p) ==
    IF Truthy(Get(p, "mqtt.tls.enabled", B(FALSE)))
    THEN <<W("--tls")>>
         \o TlsOption(p, "mqtt.tls.ca_certs", "--tls-ca-certs")
         \o TlsOption(p, "mqtt.tls.cert_reqs", "--tls-cert-reqs")
         \o TlsOption(p, "mqtt.tls.keyfile", "--tls-keyfile")
         \o TlsOption(p, "mqtt.tls.certfile", "--tls-certfile")
         \o TlsOption(p, "mqtt.tls.ciphers", "--tls-ciphers")
         \o TlsOption(p, "mqtt.tls.version", "--tls-version")
    ELSE <<>>

\* the TLS block of add_standard_args
TlsArgs(p) ==
    IF Truthy(Get(p, "mqtt.tls.enabled", B(FALSE)))
    THEN <<W("--tls")>>
         \o TlsOption(p, "mqtt.tls.ca_certs", "--tls-ca-certs")
         \o TlsOption(p, "mqtt.tls.cert_reqs", "--tls-cert-reqs")
         \o TlsOption(p, "mqtt.tls.certfile", "--tls-certfile")
         \o TlsOption(p, "mqtt.tls.keyfile", "--tls-keyfile")
         \o TlsOption(p, "mqtt.tls.ciphers", "--tls-ciphers")
         \o TlsOption(p, "mqtt.tls.version", "--tls-version")
    ELSE <<>>

\* add_standard_args: the command with the typical MQTT arguments appended
add_standard_args(p, command, site_ids, mqtt_host, mqtt_port, mqtt_username, mqtt_password) ==
    command
    \o <<W("--debug")>>
    \o <<W("--host"), mqtt_host>>
    \o <<W("--port"), IntStr(mqtt_port)>>
    \o SiteIdArgs(site_ids)
    \o (IF mqtt_username # <<>>
        THEN <<W("--username"), quote(mqtt_username), W("--password"), quote(mqtt_password)>>
        ELSE <<>>)
    \o TlsArgs(p)
    \o (IF Truthy(Get(p, "logging.format", S(<<>>)))
        THEN <<W("--log-format"), quote(Str(Get(p, "logging.format", S(<<>>))))>>
        ELSE <<>>)

\* add_lang_args
add_lang_args(p, command, system_type) ==
    IF Truthy(Get(p, system_type \o ".lang", None))
    THEN command \o <<W("--lang"), Str(Get(p, system_type \o ".lang", None))>>
    ELSE command

\* master_site_ids of profile_to_conf and profile_to_docker
master_site_ids(p) == Split(Str(Get(p, "mqtt.site_id", S(W("default")))), ",")

\* satellite_site_ids of one stage
satellite_site_ids(p, stage) ==
    IF stage = "webhooks"
    THEN Split(Str(DictGet(Get(p, "webhooks", Dict(<<>>)).d, W("satellite_site_ids"), S(<<>>))), ",")
    ELSE Split(Str(Get(p, stage \o ".satellite_site_ids", S(<<>>))), ",")

\* the site_ids argument handed to a stage's builder
stage_site_ids(p, stage) == master_site_ids(p) \o satellite_site_ids(p, stage)

-----------------------------------------------------------------------------
(* Helpers of the builders *)

RECURSIVE ShlexScan(_, _, _, _, _)
\* shlex.split in POSIX mode.  mode: "ws" between tokens, "a" in a word, "'" or
\* "\"" in a quotation, "esc" after a backslash (back is the mode to return to)
ShlexScan(s, mode, back, cur, out) ==
    IF s = <<>> THEN
        IF mode \in {"'", "\"", "esc"} THEN [ok |-> FALSE, tokens |-> <<>>]
        ELSE [ok |-> TRUE, tokens |-> IF mode = "a" THEN Append(out, cur) ELSE out]
    ELSE LET c == Head(s)
             r == Tail(s)
         IN  CASE mode = "ws" ->
                    (IF c \in Whitespace THEN ShlexScan(r, "ws", back, <<>>, out)
                     ELSE IF c \in {"'", "\""} THEN ShlexScan(r, c, back, <<>>, out)
                     ELSE IF c = "\\" THEN ShlexScan(r, "esc", "a", <<>>, out)
                     ELSE ShlexScan(r, "a", back, <<c>>, out))
               [] mode = "a" ->
                    (IF c \in Whitespace THEN ShlexScan(r, "ws", back, <<>>, Append(out, cur))
                     ELSE IF c \in {"'", "\""} THEN ShlexScan(r, c, back, cur, out)
                     ELSE IF c = "\\" THEN ShlexScan(r, "esc", "a", cur, out)
                     ELSE ShlexScan(r, "a", back, Append(cur, c), out))
               [] mode = "'" ->
                    (IF c = "'" THEN ShlexScan(r, "a", back, cur, out)
                     ELSE ShlexScan(r, "'", back, Append(cur, c), out))
               [] mode = "\"" ->
                    (IF c = "\"" THEN ShlexScan(r, "a", back, cur, out)
                     ELSE IF c = "\\" THEN ShlexScan(r, "esc", "\"", cur, out)
                     ELSE ShlexScan(r, "\"", back, Append(cur, c), out))
               [] OTHER ->
                    (IF back = "\"" /\ c \notin {"\\", "\""}
                     THEN ShlexScan(r, back, back, cur \o <<"\\", c>>, out)
                     ELSE ShlexScan(r, back, back, Append(cur, c), out))

\* shlex.split(s): [ok, tokens]; not ok is the ValueError of an open quotation
ShlexSplit(s) == ShlexScan(s, "ws", "a", <<>>, <<>>)

\* the result of a builder: a command (empty: the stage is omitted) or an exception
Ok(cmd) == [raised |-> FALSE, error |-> "", cmd |-> cmd]

Raise(error) == [raised |-> TRUE, error |-> error, cmd |-> <<>>]

\* command_args: arguments given as a string are shell-split, a list is taken as is
command_args(arguments) ==
    IF Truthy(arguments)
    THEN (IF arguments.t = "str" THEN ShlexSplit(arguments.s).tokens ELSE arguments.m)
    ELSE <<>>

\* whether command_args raises (shlex.split on an open quotation)
command_args_raises(arguments) ==
    Truthy(arguments) /\ arguments.t = "str" /\ ~ShlexSplit(arguments.s).ok

RECURSIVE JoinPath(_, _)
\* Path.joinpath: an absolute part replaces what precedes it
JoinPath(base, parts) ==
    IF parts = <<>> THEN base
    ELSE LET part == Head(parts)
         IN  JoinPath(IF part = <<>> THEN base
                      ELSE IF Head(part) = "/" THEN part
                      ELSE IF base # <<>> /\ base[Len(base)] = "/" THEN base \o part
                      ELSE base \o <<"/">> \o part,
                      Tail(parts))

\* str(write_path(profile, *path_parts))
write_path(e, path_parts) == JoinPath(e.user_profiles_dir, <<e.name>> \o path_parts)

\* if v: command.extend([flag, str(v)])
Opt(p, path, flag) ==
    IF Truthy(Get(p, path, None)) THEN <<W(flag), Str(Get(p, path, None))>> ELSE <<>>

\* if v: command.extend([flag, shlex.quote(str(v))])
OptQ(p, path, flag) ==
    IF Truthy(Get(p, path, None)) THEN <<W(flag), quote(Str(Get(p, path, None)))>> ELSE <<>>

\* if v: command.extend([flag, shlex.quote(str(write_path(profile, v)))])
OptWP(p, e, path, flag) ==
    IF Truthy(Get(p, path, None)) THEN <<W(flag), quote(write_path(e, <<Str(Get(p, path, None))>>))>> ELSE <<>>

\* v = str(profile.get(path, "")); if v: command.extend([flag, v])
OptStr(p, path, flag) ==
    IF Str(Get(p, path, S(<<>>))) # <<>> THEN <<W(flag), Str(Get(p, path, S(<<>>)))>> ELSE <<>>

\* if v is not None: command.extend([flag, str(v)])
OptSet(p, path, flag) ==
    IF Get(p, path, None).t # "none" THEN <<W(flag), Str(Get(p, path, None))>> ELSE <<>>

\* if v is not None: command.extend([flag, shlex.quote(str(v))])
OptSetQ(p, path, flag) ==
    IF Get(p, path, None).t # "none" THEN <<W(flag), quote(Str(Get(p, path, None)))>> ELSE <<>>

RECURSIVE ExpandVars(_, _)
\* os.path.expandvars: $NAME is replaced when the environment defines NAME
ExpandVars(e, s) ==
    IF s = <<>> THEN <<>>
    ELSE IF Head(s) = "$" /\ Len(s) >= 2 /\ s[2] \in DOMAIN e.environ
         THEN e.environ[s[2]] \o ExpandVars(e, Tail(Tail(s)))
         ELSE <<Head(s)>> \o ExpandVars(e, Tail(s))

\* add_ssl_args
add_ssl_args(p, e, command) ==
    command
    \o (IF Truthy(Get(p, "home_assistant.pem_file", None))
        THEN <<W("--certfile"), quote(ExpandVars(e, Str(Get(p, "home_assistant.pem_file", None))))>>
        ELSE <<>>)
    \o (IF Truthy(Get(p, "home_assistant.key_file", None))
        THEN <<W("--keyfile"), quote(ExpandVars(e, Str(Get(p, "home_assistant.key_file", None))))>>
        ELSE <<>>)

\* add_silence_args
add_silence_args(p, command) ==
    command
    \o OptStr(p, "command.webrtcvad.skip_sec", "--voice-skip-seconds")
    \o OptStr(p, "command.webrtcvad.min_sec", "--voice-min-seconds")
    \o OptStr(p, "command.webrtcvad.max_sec", "--voice-max-seconds")
    \o OptStr(p, "command.webrtcvad.speech_sec", "--voice-speech-seconds")
    \o OptStr(p, "command.webrtcvad.silence_sec", "--voice-silence-seconds")
    \o OptStr(p, "command.webrtcvad.before_sec", "--voice-before-seconds")
    \o OptStr(p, "command.webrtcvad.vad_mode", "--voice-sensitivity")
    \o OptStr(p, "command.webrtcvad.silence_method", "--voice-silence-method")
    \o OptStr(p, "command.webrtcvad.current_energy_threshold", "--voice-current-energy-threshold")
    \o OptStr(p, "command.webrtcvad.max_energy", "--voice-max-energy")
    \o OptStr(p, "command.webrtcvad.max_current_energy_ratio_threshold", "--voice-max-current-energy-ratio-threshold")

\* [program] + command_args(arguments), joined with spaces and quoted
user_command(program, arguments) ==
    quote(Join(<<Str(program)>> \o command_args(arguments), <<" ">>))

\* the broker settings a builder receives: mqtt_host, mqtt_port, mqtt_username, mqtt_password
Std(p, command, site_ids, m) ==
    add_standard_args(p, command, site_ids, m.mqtt_host, m.mqtt_port, m.mqtt_username, m.mqtt_password)

-----------------------------------------------------------------------------
(* Microphone *)

\* [program] + profile.get(arguments, []) joined and quoted (no command_args here)
listed_command(p, program_path, arguments_path) ==
    quote(Join(<<Str(Get(p, program_path, None))>> \o Get(p, arguments_path, Lst(<<>>)).m, <<" ">>))

\* int(profile.get(path, default)) raises ValueError on a string that is no integer
IntSettingRaises(p, path) ==
    LET v == Get(p, path, N(0)) IN v.t = "str" /\ ~IsIntStr(v.s)

IntSetting(p, path, default) ==
    LET v == Get(p, path, N(default))
    IN  IF v.t = "str" THEN ParseInt(v.s) ELSE IF v.t = "bool" THEN (IF v.b THEN 1 ELSE 0) ELSE v.n

get_microphone_arecord(p, e, site_ids, m) ==
    LET record_command ==
            <<W("arecord"), W("-q"), W("-r"), W("16000"), W("-f"), W("S16_LE"), W("-c"), W("1"), W("-t"), W("raw")>>
            \o (IF Strip(Str(Get(p, "microphone.arecord.device", S(<<>>)))) # <<>>
                THEN <<W("-D"), Strip(Str(Get(p, "microphone.arecord.device", S(<<>>))))>> ELSE <<>>)
        mic_command ==
            <<W("rhasspy-microphone-cli-hermes"), W("--sample-rate"), W("16000"), W("--sample-width"), W("2"),
              W("--channels"), W("1"),
              W("--record-command"), quote(Join(record_command, <<" ">>)),
              W("--list-command"), quote(<<"arecord", " ", "-L">>),
              W("--test-command"), quote(<<"arecord", " ", "-q", " ", "-D", " ", "{", "}", " ", "-r", " ", "16000", " ", "-f", " ", "S16_LE", " ", "-c", " ", "1", " ", "-t", " ", "raw">>)>>
    IN  Ok(Std(p, mic_command, site_ids, m)
           \o (IF Truthy(Get(p, "microphone.arecord.udp_audio_host", S(W("127.0.0.1"))))
               THEN <<W("--udp-audio-host"), Str(Get(p, "microphone.arecord.udp_audio_host", S(W("127.0.0.1"))))>> ELSE <<>>)
           \o Opt(p, "microphone.arecord.udp_audio_port", "--udp-audio-port")
           \o OptQ(p, "microphone.arecord.site_id", "--output-site-id"))

get_microphone_pyaudio(p, e, site_ids, m) ==
    LET mic_command ==
            <<W("rhasspy-microphone-pyaudio-hermes"), W("--sample-rate"), W("16000"), W("--sample-width"), W("2"),
              W("--channels"), W("1")>>
    IN  Ok(Std(p, mic_command, site_ids, m)
           \o (IF Strip(Str(Get(p, "microphone.pyaudio.device", S(<<>>)))) # <<>>
               THEN <<W("--device-index"), Strip(Str(Get(p, "microphone.pyaudio.device", S(<<>>))))>> ELSE <<>>)
           \o OptQ(p, "microphone.pyaudio.site_id", "--output-site-id")
           \o (IF Truthy(Get(p, "microphone.pyaudio.udp_audio_host", S(W("127.0.0.1"))))
               THEN <<W("--udp-audio-host"), Str(Get(p, "microphone.pyaudio.udp_audio_host", S(W("127.0.0.1"))))>> ELSE <<>>)
           \o Opt(p, "microphone.pyaudio.udp_audio_port", "--udp-audio-port")
           \o OptSet(p, "microphone.pyaudio.frames_per_buffer", "--frames-per-buffer"))

get_microphone_command(p, e, site_ids, m) ==
    IF ~Truthy(Get(p, "microphone.command.record_program", None)) THEN Ok(<<>>)
    ELSE IF command_args_raises(Get(p, "microphone.command.record_arguments", Lst(<<>>))) THEN Raise("ValueError")
    ELSE IF \/ IntSettingRaises(p, "microphone.command.sample_rate")
            \/ IntSettingRaises(p, "microphone.command.sample_width")
            \/ IntSettingRaises(p, "microphone.command.channels") THEN Raise("ValueError")
    ELSE LET mic_command ==
                <<W("rhasspy-microphone-cli-hermes"),
                  W("--sample-rate"), IntToStr(IntSetting(p, "microphone.command.sample_rate", 16000)),
                  W("--sample-width"), IntToStr(IntSetting(p, "microphone.command.sample_width", 2)),
                  W("--channels"), IntToStr(IntSetting(p, "microphone.command.channels", 1)),
                  W("--record-command"),
                  user_command(Get(p, "microphone.command.record_program", None),
                               Get(p, "microphone.command.record_arguments", Lst(<<>>)))>>
         IN  Ok(Std(p, mic_command, site_ids, m)
                \o (IF Truthy(Get(p, "microphone.command.list_program", None))
                    THEN <<W("--list-command"), listed_command(p, "microphone.command.list_program", "microphone.command.list_arguments")>>
                    ELSE <<>>)
                \o (IF Truthy(Get(p, "microphone.command.test_program", None))
                    THEN <<W("--test-command"), listed_command(p, "microphone.command.test_program", "microphone.command.test_arguments")>>
                    ELSE <<>>)
                \o Opt(p, "microphone.command.udp_audio_port", "--udp-audio-port")
                \o OptQ(p, "microphone.command.site_id", "--output-site-id"))

\* get_microphone: the command of the microphone service
get_microphone(mic_system, p, e, site_ids, m) ==
    CASE mic_system = S(W("arecord")) -> get_microphone_arecord(p, e, site_ids, m)
      [] mic_system = S(W("pyaudio")) -> get_microphone_pyaudio(p, e, site_ids, m)
      [] mic_system = S(W("command")) -> get_microphone_command(p, e, site_ids, m)
      [] OTHER -> Raise("ValueError")

-----------------------------------------------------------------------------
(* Speakers *)

get_speakers_aplay(p, e, site_ids, m) ==
    LET play_command ==
            <<W("aplay"), W("-q"), W("-t"), W("wav")>>
            \o (IF Strip(Str(Get(p, "sounds.aplay.device", S(<<>>)))) # <<>>
                THEN <<W("-D"), Strip(Str(Get(p, "sounds.aplay.device", S(<<>>))))>> ELSE <<>>)
        output_command ==
            <<W("rhasspy-speakers-cli-hermes"),
              W("--play-command"), quote(Join(play_command, <<" ">>)),
              W("--list-command"), quote(<<"aplay", " ", "-L">>)>>
            \o OptStr(p, "sounds.aplay.volume", "--volume")
    IN  Ok(Std(p, output_command, site_ids, m))

get_speakers_command(p, e, site_ids, m) ==
    IF ~Truthy(Get(p, "sounds.command.play_program", None)) THEN Ok(<<>>)
    ELSE IF command_args_raises(Get(p, "sounds.command.play_arguments", Lst(<<>>))) THEN Raise("ValueError")
    ELSE LET output_command ==
                <<W("rhasspy-speakers-cli-hermes"),
                  W("--play-command"),
                  user_command(Get(p, "sounds.command.play_program", None),
                               Get(p, "sounds.command.play_arguments", Lst(<<>>)))>>
         IN  Ok(Std(p, output_command, site_ids, m)
                \o (IF Truthy(Get(p, "sounds.command.list_program", None))
                    THEN <<W("--list-command"), listed_command(p, "sounds.command.list_program", "sounds.command.list_arguments")>>
                    ELSE <<>>))

get_speakers_remote(p, e, site_ids, m) ==
    IF ~Truthy(Get(p, "sounds.remote.url", None)) THEN Ok(<<>>)
    ELSE LET play_command ==
                <<W("curl"), W("-s"), W("-X"), W("POST"), W("-H"), <<"Content-Type:", " ", "audio/wav">>,
                  W("--data-binary"), W("@-"), quote(Str(Get(p, "sounds.remote.url", None)))>>
             output_command ==
                <<W("rhasspy-speakers-cli-hermes"), W("--play-command"), quote(Join(play_command, <<" ">>))>>
         IN  Ok(Std(p, output_command, site_ids, m))

\* get_speakers: the command of the audio output service
get_speakers(sound_system, p, e, site_ids, m) ==
    CASE sound_system = S(W("aplay")) -> get_speakers_aplay(p, e, site_ids, m)
      [] sound_system = S(W("command")) -> get_speakers_command(p, e, site_ids, m)
      [] sound_system = S(W("remote")) -> get_speakers_remote(p, e, site_ids, m)
      [] OTHER -> Raise("ValueError")

-----------------------------------------------------------------------------
(* Wake word *)

RECURSIVE UdpSiteInfoArgs(_)
\* the loop over udp_site_info.items() of add_udp_audio_settings
UdpSiteInfoArgs(items) ==
    IF items = <<>> THEN <<>>
    ELSE (IF Truthy(DictGet(Head(items)[2].d, W("raw_audio"), B(FALSE)))
          THEN <<W("--udp-raw-audio"), Head(items)[1]>> ELSE <<>>)
         \o (IF Truthy(DictGet(Head(items)[2].d, W("forward_to_mqtt"), B(FALSE)))
             THEN <<W("--udp-forward-mqtt"), Head(items)[1]>> ELSE <<>>)
         \o UdpSiteInfoArgs(Tail(items))

\* the port field of one host:port:siteId tuple
UdpPortField(udp_settings) == IF Len(udp_settings) = 1 THEN udp_settings[1] ELSE udp_settings[2]

RECURSIVE UdpAudioLoopLocal(_, _, _, _)
\* the tuple loop with the host fixed to the loopback address
UdpAudioLoopLocal(command, tuples, site_id, udp_site_info) ==
    IF tuples = <<>> THEN Ok(command)
    ELSE LET udp_settings == Split(Head(tuples), ":")
             udp_site_id == IF Len(udp_settings) > 2 THEN udp_settings[3] ELSE site_id
         IN  IF ~IsIntStr(UdpPortField(udp_settings)) THEN Raise("ValueError")
             ELSE UdpAudioLoopLocal(command
                                      \o <<W("--udp-audio"), W("127.0.0.1"),
                                           IntStr(ParseInt(UdpPortField(udp_settings))), quote(udp_site_id)>>
                                      \o UdpSiteInfoArgs(udp_site_info),
                                    Tail(tuples), site_id, udp_site_info)

RECURSIVE UdpAudioLoop(_, _, _, _)
\* the loop over udp_audio.split(",") of add_udp_audio_settings
UdpAudioLoop(command, tuples, site_id, udp_site_info) ==
    IF tuples = <<>> THEN Ok(command)
    ELSE LET udp_settings == Split(Head(tuples), ":")
             udp_host == IF Len(udp_settings) = 1 THEN W("127.0.0.1") ELSE udp_settings[1]
             udp_site_id == IF Len(udp_settings) > 2 THEN udp_settings[3] ELSE site_id
         IN  IF ~IsIntStr(UdpPortField(udp_settings)) THEN Raise("ValueError")
             ELSE UdpAudioLoop(command
                                 \o <<W("--udp-audio"), quote(udp_host),
                                      IntStr(ParseInt(UdpPortField(udp_settings))), quote(udp_site_id)>>
                                 \o UdpSiteInfoArgs(udp_site_info),
                               Tail(tuples), site_id, udp_site_info)

\* add_udp_audio_settings
add_udp_audio_settings(command, udp_audio, site_id, udp_site_info) ==
    UdpAudioLoop(command, Split(udp_audio, ","), site_id, udp_site_info)

\* the udp_audio block of a wake variant: its own udp_audio and the udp_site_info path it reads
WakeUdp(p, command, audio_path, info_path, wake_site_id) ==
    IF Truthy(Get(p, audio_path, S(<<>>)))
    THEN add_udp_audio_settings(command, Str(Get(p, audio_path, S(<<>>))), wake_site_id, Get(p, info_path, Dict(<<>>)).d)
    ELSE Ok(command)

\* wake_site_id = "default" if not site_ids else site_ids[0]
wake_site_id(site_ids) == IF site_ids = <<>> THEN W("default") ELSE site_ids[1]

\* a porcupine variant that is omitted when no keyword path is set
get_wake_porcupine_strict(p, e, site_ids, m) ==
    IF ~Truthy(Get(p, "wake.porcupine.keyword_path", None)) THEN Ok(<<>>)
    ELSE Ok(<<W("rhasspy-wake-porcupine-hermes"), W("--keyword"), quote(Str(Get(p, "wake.porcupine.keyword_path", None)))>>)

get_wake_porcupine(p, e, site_ids, m) ==
    LET keyword == IF Truthy(Get(p, "wake.porcupine.keyword_path", None))
                   THEN Str(Get(p, "wake.porcupine.keyword_path", None)) ELSE W("porcupine.ppn")
        wake_command ==
            <<W("rhasspy-wake-porcupine-hermes"), W("--keyword"), quote(keyword),
              W("--sensitivity"), Str(Get(p, "wake.porcupine.sensitivity", S(W("0.5")))),
              W("--access-key"), Str(Get(p, "wake.porcupine.access_key", None)),
              W("--keyword-dir"), quote(write_path(e, <<W("porcupine")>>))>>
    IN  WakeUdp(p, add_lang_args(p, Std(p, wake_command, site_ids, m), "wake"),
                "wake.porcupine.udp_audio", "wake.porcupine.udp_site_info", wake_site_id(site_ids))

\* float(v) raises ValueError on a string that is no number
IsFloatStr(s) ==
    LET t == Strip(s)
        parts == Split(t, ".")
    IN  /\ Len(parts) <= 2
        /\ \A i \in 1..Len(parts) : \A j \in 1..Len(parts[i]) : parts[i][j] \in DigitSet
        /\ \E i \in 1..Len(parts) : parts[i] # <<>>

RECURSIVE DropTrailingZeros(_)
DropTrailingZeros(d) == IF d # <<>> /\ d[Len(d)] = "0" THEN DropTrailingZeros(SubSeq(d, 1, Len(d) - 1)) ELSE d

\* str(float(s)) of an unsigned decimal
FloatRepr(s) ==
    LET parts == Split(Strip(s), ".")
        frac == IF Len(parts) = 2 THEN DropTrailingZeros(parts[2]) ELSE <<>>
    IN  IntToStr(DigitsToInt(parts[1])) \o <<".">> \o (IF frac = <<>> THEN <<"0">> ELSE frac)

\* str(float(v)) of a profile value
FloatStr(v) ==
    CASE v.t = "float" -> v.s
      [] v.t = "int" -> IntStr(v.n) \o <<".", "0">>
      [] v.t = "bool" -> (IF v.b THEN <<"1", ".", "0">> ELSE <<"0", ".", "0">>)
      [] OTHER -> FloatRepr(v.s)

\* the settings of a snowboy model with the per-model settings ignored
snowboy_settings_stage(p, model_name) ==
    <<<<W("sensitivity"), S(Str(Get(p, "wake.snowboy.sensitivity", S(W("0.5")))))>>,
      <<W("audio_gain"), F(FloatStr(Get(p, "wake.snowboy.audio_gain", S(<<"1", ".", "0">>))))>>,
      <<W("apply_frontend"), B(Truthy(Get(p, "wake.snowboy.apply_frontend", B(FALSE))))>>>>

\* the settings of one snowboy model once the defaults are filled in
snowboy_settings(p, model_name) ==
    LET given == DictGet(Get(p, "wake.snowboy.model_settings", Dict(<<>>)).d, model_name, Dict(<<>>)).d
        s1 == IF DictHas(given, W("sensitivity")) THEN given
              ELSE DictSet(given, W("sensitivity"), S(Str(Get(p, "wake.snowboy.sensitivity", S(W("0.5"))))))
        s2 == IF DictHas(s1, W("audio_gain")) THEN s1
              ELSE DictSet(s1, W("audio_gain"), F(FloatStr(Get(p, "wake.snowboy.audio_gain", S(<<"1", ".", "0">>)))))
    IN  IF DictHas(s2, W("apply_frontend")) THEN s2
        ELSE DictSet(s2, W("apply_frontend"), B(Truthy(Get(p, "wake.snowboy.apply_frontend", B(FALSE)))))

\* model_names of the snowboy variant
snowboy_model_names(p) ==
    Split(IF Truthy(Get(p, "wake.snowboy.model", None)) THEN Str(Get(p, "wake.snowboy.model", None)) ELSE W("snowboy.umdl"), ",")

RECURSIVE SnowboyModelArgsBare(_, _)
\* the loop over model_names with the names left unquoted
SnowboyModelArgsBare(p, model_names) ==
    IF model_names = <<>> THEN <<>>
    ELSE LET settings == snowboy_settings(p, Head(model_names))
         IN  <<W("--model"), Head(model_names),
               Str(DictGet(settings, W("sensitivity"), None)),
               Str(DictGet(settings, W("audio_gain"), None)),
               Str(DictGet(settings, W("apply_frontend"), None))>>
             \o SnowboyModelArgsBare(p, Tail(model_names))

RECURSIVE SnowboyModelArgs(_, _)
\* the loop over model_names of the snowboy variant
SnowboyModelArgs(p, model_names) ==
    IF model_names = <<>> THEN <<>>
    ELSE LET settings == snowboy_settings(p, Head(model_names))
         IN  <<W("--model"), quote(Head(model_names)),
               Str(DictGet(settings, W("sensitivity"), None)),
               Str(DictGet(settings, W("audio_gain"), None)),
               Str(DictGet(settings, W("apply_frontend"), None))>>
             \o SnowboyModelArgs(p, Tail(model_names))

get_wake_snowboy(p, e, site_ids, m) ==
    LET wake_command == <<W("rhasspy-wake-snowboy-hermes"), W("--model-dir"), quote(write_path(e, <<W("snowboy")>>))>>
        udp == WakeUdp(p, add_lang_args(p, Std(p, wake_command, site_ids, m), "wake"),
                       "wake.snowboy.udp_audio", "wake.snowboy.udp_site_info", wake_site_id(site_ids))
        gain == Get(p, "wake.snowboy.audio_gain", S(<<"1", ".", "0">>))
    IN  IF udp.raised THEN udp
        ELSE IF gain.t = "str" /\ ~IsFloatStr(gain.s) THEN Raise("ValueError")
        ELSE Ok(udp.cmd \o SnowboyModelArgs(p, snowboy_model_names(p)))

get_wake_precise(p, e, site_ids, m) ==
    LET model == IF Truthy(Get(p, "wake.precise.model", None))
                 THEN Str(Get(p, "wake.precise.model", None)) ELSE W("hey-mycroft-2.pb")
        sensitivity == IF Str(Get(p, "wake.precise.sensitivity", F(W("0.5")))) # <<>>
                       THEN Str(Get(p, "wake.precise.sensitivity", F(W("0.5")))) ELSE W("0.5")
        trigger_level == IF Str(Get(p, "wake.precise.trigger_level", N(3))) # <<>>
                         THEN Str(Get(p, "wake.precise.trigger_level", N(3))) ELSE W("3")
        wake_command ==
            <<W("rhasspy-wake-precise-hermes"), W("--model"), quote(model),
              W("--sensitivity"), sensitivity, W("--trigger-level"), trigger_level,
              W("--model-dir"), quote(write_path(e, <<W("precise")>>))>>
    IN  WakeUdp(p, add_lang_args(p, Std(p, wake_command, site_ids, m), "wake"),
                "wake.precise.udp_audio", "wake.porcupine.udp_site_info", wake_site_id(site_ids))

get_wake_pocketsphinx(p, e, site_ids, m) ==
    LET acoustic_model == IF Truthy(Get(p, "wake.pocketsphinx.acoustic_model", None))
                          THEN Get(p, "wake.pocketsphinx.acoustic_model", None)
                          ELSE Get(p, "speech_to_text.pocketsphinx.acoustic_model", None)
        wake_command ==
            <<W("rhasspy-wake-pocketsphinx-hermes"),
              W("--keyphrase"), quote(Str(Get(p, "wake.pocketsphinx.keyphrase", S(<<"okay", " ", "raspy">>)))),
              W("--keyphrase-threshold"), Str(Get(p, "wake.pocketsphinx.threshold", S(W("1e-40")))),
              W("--acoustic-model"), quote(write_path(e, <<Str(acoustic_model)>>))>>
            \o OptWP(p, e, "wake.pocketsphinx.dictionary", "--dictionary")
            \o OptWP(p, e, "speech_to_text.pocketsphinx.base_dictionary", "--dictionary")
            \o OptWP(p, e, "speech_to_text.pocketsphinx.dictionary", "--dictionary")
            \o OptWP(p, e, "speech_to_text.pocketsphinx.custom_words", "--dictionary")
        udp == WakeUdp(p, add_lang_args(p, Std(p, wake_command, site_ids, m), "wake"),
                       "wake.pocketsphinx.udp_audio", "wake.pocketsphinx.udp_site_info", wake_site_id(site_ids))
    IN  IF ~Truthy(acoustic_model) THEN Ok(<<>>)
        ELSE IF udp.raised THEN udp
        ELSE Ok(udp.cmd \o OptWP(p, e, "wake.pocketsphinx.mllr_matrix", "--mllr-matrix"))

RECURSIVE RavenDetect(_, _)
\* keywords after the directories found under the template directory are added
RavenDetect(keywords, dirs) ==
    IF dirs = <<>> THEN keywords
    ELSE RavenDetect(IF DictHas(keywords, Head(dirs)) THEN keywords
                     ELSE DictSet(keywords, Head(dirs), Dict(<<<<W("enabled"), B(TRUE)>>>>)),
                     Tail(dirs))

\* keywords of the raven variant after automatic detection
raven_keywords(p, e) == RavenDetect(Get(p, "wake.raven.keywords", Dict(<<>>)).d, e.raven_dirs)

RECURSIVE RavenSettingArgs(_)
RavenSettingArgs(settings) ==
    IF settings = <<>> THEN <<>>
    ELSE <<quote(Head(settings)[1] \o <<"=">> \o Str(Head(settings)[2]))>> \o RavenSettingArgs(Tail(settings))

RECURSIVE RavenKeywordArgs(_, _, _)
\* the loop over keywords.items() of the raven variant
RavenKeywordArgs(e, template_dir, keywords) ==
    IF keywords = <<>> THEN <<>>
    ELSE LET name == Head(keywords)[1]
             settings == Head(keywords)[2].d
         IN  (IF ~Truthy(DictGet(settings, W("enabled"), B(TRUE))) THEN <<>>
              ELSE IF \A i \in 1..Len(e.raven_dirs) : e.raven_dirs[i] # name THEN <<>>
              ELSE <<W("--keyword"), quote(write_path(e, <<template_dir, name>>))>> \o RavenSettingArgs(settings))
             \o RavenKeywordArgs(e, template_dir, Tail(keywords))

get_wake_raven(p, e, site_ids, m) ==
    LET template_dir == Get(p, "wake.raven.template_dir", S(W("raven")))
        wake_command ==
            <<W("rhasspy-wake-raven-hermes")>>
            \o RavenKeywordArgs(e, Str(template_dir), raven_keywords(p, e))
            \o Opt(p, "wake.raven.probability_threshold", "--probability-threshold")
            \o Opt(p, "wake.raven.minimum_matches", "--minimum-matches")
            \o (IF Truthy(Get(p, "wake.raven.average_templates", B(TRUE))) THEN <<W("--average-templates")>> ELSE <<>>)
            \o (IF Truthy(Get(p, "wake.raven.vad_sensitivity", N(1)))
                THEN <<W("--vad-sensitivity"), Str(Get(p, "wake.raven.vad_sensitivity", N(1)))>> ELSE <<>>)
            \o OptWP(p, e, "wake.raven.examples_dir", "--examples-dir")
            \o OptQ(p, "wake.raven.examples_format", "--examples-format")
    IN  IF ~Truthy(template_dir) THEN Ok(<<>>)
        ELSE WakeUdp(p, add_lang_args(p, Std(p, wake_command, site_ids, m), "wake"),
                     "wake.raven.udp_audio", "wake.pocketsphinx.udp_site_info", wake_site_id(site_ids))

get_wake_command(p, e, site_ids, m) ==
    IF ~Truthy(Get(p, "wake.command.program", None)) THEN Ok(<<>>)
    ELSE IF command_args_raises(Get(p, "wake.command.arguments", Lst(<<>>))) THEN Raise("ValueError")
    ELSE LET wake_command ==
                <<W("rhasspy-remote-http-hermes"), W("--wake-command"),
                  user_command(Get(p, "wake.command.program", None), Get(p, "wake.command.arguments", Lst(<<>>)))>>
         IN  Ok(add_ssl_args(p, e,
                    add_lang_args(p, Std(p, wake_command, site_ids, m), "wake")
                    \o Opt(p, "wake.command.sample_rate", "--wake-sample-rate")
                    \o Opt(p, "wake.command.sample_width", "--wake-sample-width")
                    \o Opt(p, "wake.command.channels", "--wake-channels")))

\* get_wake: the command of the wake word service
get_wake(wake_system, p, e, site_ids, m) ==
    CASE wake_system = S(W("porcupine")) -> get_wake_porcupine(p, e, site_ids, m)
      [] wake_system = S(W("snowboy")) -> get_wake_snowboy(p, e, site_ids, m)
      [] wake_system = S(W("precise")) -> get_wake_precise(p, e, site_ids, m)
      [] wake_system = S(W("pocketsphinx")) -> get_wake_pocketsphinx(p, e, site_ids, m)
      [] wake_system = S(W("raven")) -> get_wake_raven(p, e, site_ids, m)
      [] wake_system = S(W("command")) -> get_wake_command(p, e, site_ids, m)
      [] OTHER -> Raise("ValueError")

RECURSIVE SnowboyFill(_, _, _)
\* model_settings after the snowboy loop has filled the defaults into the dicts it holds
SnowboyFill(p, model_settings, model_names) ==
    IF model_names = <<>> THEN model_settings
    ELSE SnowboyFill(p,
                     IF DictHas(model_settings, Head(model_names))
                     THEN DictSet(model_settings, Head(model_names), Dict(snowboy_settings(p, Head(model_names))))
                     ELSE model_settings,
                     Tail(model_names))

\* a wake builder that uses up the per-model settings it reads
wake_profile_effect_stale(wake_system, p, e, site_ids) ==
    IF wake_system = S(W("snowboy")) /\ Get(p, "wake.snowboy.model_settings", None).t = "dict"
    THEN [p EXCEPT !["wake.snowboy.model_settings"] = Dict(<<>>)]
    ELSE p

\* the profile after get_wake: the snowboy and raven variants write into the dicts
\* that profile.get handed them
wake_profile_effect(wake_system, p, e, site_ids) ==
    IF /\ wake_system = S(W("snowboy"))
       /\ Get(p, "wake.snowboy.model_settings", None).t = "dict"
       /\ ~WakeUdp(p, <<>>, "wake.snowboy.udp_audio", "wake.snowboy.udp_site_info", wake_site_id(site_ids)).raised
       /\ ~(Get(p, "wake.snowboy.audio_gain", N(1)).t = "str" /\ ~IsFloatStr(Get(p, "wake.snowboy.audio_gain", N(1)).s))
    THEN [p EXCEPT !["wake.snowboy.model_settings"] =
              Dict(SnowboyFill(p, Get(p, "wake.snowboy.model_settings", None).d, snowboy_model_names(p)))]
    ELSE IF /\ wake_system = S(W("raven"))
            /\ Truthy(Get(p, "wake.raven.template_dir", S(W("raven"))))
            /\ Get(p, "wake.raven.keywords", None).t = "dict"
    THEN [p EXCEPT !["wake.raven.keywords"] = Dict(raven_keywords(p, e))]
    ELSE p

-----------------------------------------------------------------------------
(* Speech to text *)

\* str(profile.read_path(path))
read_path(e, path_parts) == JoinPath(e.read_profiles_dir, <<e.name>> \o path_parts)

\* the training URL block of the command and remote variants
AsrTrainUrl(p) ==
    IF Get(p, "training.speech_to_text.system", S(W("auto"))) = S(W("auto"))
    THEN OptQ(p, "training.speech_to_text.remote.url", "--asr-train-url") ELSE <<>>

get_speech_to_text_pocketsphinx(p, e, site_ids, m) ==
    LET open_transcription == Truthy(Get(p, "speech_to_text.pocketsphinx.open_transcription", B(FALSE)))
        dictionary == IF open_transcription THEN Get(p, "speech_to_text.pocketsphinx.base_dictionary", None)
                      ELSE Get(p, "speech_to_text.pocketsphinx.dictionary", None)
        language_model == IF open_transcription THEN Get(p, "speech_to_text.pocketsphinx.base_language_model", None)
                          ELSE Get(p, "speech_to_text.pocketsphinx.language_model", None)
        stt_command ==
            <<W("rhasspy-asr-pocketsphinx-hermes"),
              W("--acoustic-model"), quote(write_path(e, <<Str(Get(p, "speech_to_text.pocketsphinx.acoustic_model", None))>>)),
              W("--dictionary"), quote(write_path(e, <<Str(dictionary)>>)),
              W("--language-model"), quote(write_path(e, <<Str(language_model)>>))>>
    IN  IF ~Truthy(Get(p, "speech_to_text.pocketsphinx.acoustic_model", None)) THEN Ok(<<>>)
        ELSE IF ~Truthy(dictionary) THEN Ok(<<>>)
        ELSE IF ~Truthy(language_model) THEN Ok(<<>>)
        ELSE Ok(add_silence_args(p,
                    add_lang_args(p, Std(p, stt_command, site_ids, m), "speech_to_text")
                    \o OptWP(p, e, "intent.fsticuffs.intent_graph", "--intent-graph")
                    \o (IF open_transcription THEN <<W("--no-overwrite-train")>> ELSE <<>>)
                    \o OptWP(p, e, "speech_to_text.pocketsphinx.base_dictionary", "--base-dictionary")
                    \o OptWP(p, e, "speech_to_text.pocketsphinx.custom_words", "--base-dictionary")
                    \o Opt(p, "speech_to_text.dictionary_casing", "--dictionary-casing")
                    \o OptWP(p, e, "speech_to_text.pocketsphinx.g2p_model", "--g2p-model")
                    \o Opt(p, "speech_to_text.g2p_casing", "--g2p-casing")
                    \o OptWP(p, e, "speech_to_text.pocketsphinx.unknown_words", "--unknown-words")
                    \o OptWP(p, e, "speech_to_text.pocketsphinx.base_language_model_fst", "--base-language-model-fst")
                    \o OptStr(p, "speech_to_text.pocketsphinx.mix_weight", "--base-language-model-weight")
                    \o OptWP(p, e, "speech_to_text.pocketsphinx.mix_fst", "--mixed-language-model-fst")))

get_speech_to_text_kaldi(p, e, site_ids, m) ==
    LET model_dir == write_path(e, <<Str(Get(p, "speech_to_text.kaldi.model_dir", None))>>)
        open_transcription == Truthy(Get(p, "speech_to_text.kaldi.open_transcription", B(FALSE)))
        graph == IF open_transcription THEN Get(p, "speech_to_text.kaldi.base_graph", None)
                 ELSE Get(p, "speech_to_text.kaldi.graph", None)
        stt_command ==
            <<W("rhasspy-asr-kaldi-hermes"),
              W("--model-type"), Str(Get(p, "speech_to_text.kaldi.model_type", None)),
              W("--model-dir"), quote(model_dir),
              W("--graph-dir"), quote(JoinPath(model_dir, <<Str(graph)>>))>>
            \o Opt(p, "speech_to_text.kaldi.spn_phone", "--spn-phone")
    IN  IF ~Truthy(Get(p, "speech_to_text.kaldi.model_dir", None)) THEN Ok(<<>>)
        ELSE IF ~Truthy(graph) THEN Ok(<<>>)
        ELSE IF ~Truthy(Get(p, "speech_to_text.kaldi.model_type", None)) THEN Ok(<<>>)
        ELSE Ok(add_silence_args(p,
                    add_lang_args(p, Std(p, stt_command, site_ids, m), "speech_to_text")
                    \o (IF open_transcription THEN <<W("--no-overwrite-train")>>
                        ELSE OptWP(p, e, "speech_to_text.kaldi.dictionary", "--dictionary")
                             \o OptWP(p, e, "speech_to_text.kaldi.language_model", "--language-model")
                             \o Opt(p, "speech_to_text.kaldi.language_model_type", "--language-model-type"))
                    \o OptWP(p, e, "speech_to_text.kaldi.base_dictionary", "--base-dictionary")
                    \o OptWP(p, e, "speech_to_text.kaldi.custom_words", "--base-dictionary")
                    \o Opt(p, "speech_to_text.dictionary_casing", "--dictionary-casing")
                    \o OptWP(p, e, "speech_to_text.kaldi.g2p_model", "--g2p-model")
                    \o Opt(p, "speech_to_text.g2p_casing", "--g2p-casing")
                    \o OptWP(p, e, "speech_to_text.kaldi.unknown_words", "--unknown-words")
                    \o OptWP(p, e, "speech_to_text.kaldi.base_language_model_fst", "--base-language-model-fst")
                    \o OptStr(p, "speech_to_text.kaldi.mix_weight", "--base-language-model-weight")
                    \o OptWP(p, e, "speech_to_text.kaldi.mix_fst", "--mixed-language-model-fst")
                    \o (IF Truthy(Get(p, "speech_to_text.kaldi.frequent_words", None))
                        THEN <<W("--frequent-words"), quote(read_path(e, <<Str(Get(p, "speech_to_text.kaldi.frequent_words", None))>>))>>
                        ELSE <<>>)
                    \o OptQ(p, "speech_to_text.kaldi.max_frequent_words", "--max-frequent-words")
                    \o OptQ(p, "speech_to_text.kaldi.max_unknown_words", "--max-unknown-words")
                    \o (IF Truthy(Get(p, "speech_to_text.kaldi.allow_unknown_words", B(FALSE)))
                        THEN <<W("--allow-unknown-words")>> ELSE <<>>)
                    \o OptSetQ(p, "speech_to_text.kaldi.unknown_words_probability", "--unknown-words-probability")
                    \o OptSetQ(p, "speech_to_text.kaldi.unknown_token", "--unknown-token")
                    \o OptSetQ(p, "speech_to_text.kaldi.silence_probability", "--silence-probability")
                    \o OptSetQ(p, "speech_to_text.kaldi.cancel_word", "--cancel-word")
                    \o OptSetQ(p, "speech_to_text.kaldi.cancel_probability", "--cancel-probability")))

get_speech_to_text_vosk(p, e, site_ids, m) ==
    LET stt_command ==
            <<W("rhasspy-asr-vosk-hermes"), W("--model"), write_path(e, <<Str(Get(p, "speech_to_text.vosk.model_dir", None))>>)>>
            \o (IF Truthy(Get(p, "speech_to_text.vosk.open_transcription", B(FALSE)))
                THEN <<W("--no-overwrite-train")>>
                ELSE <<W("--words-json"),
                       quote(write_path(e, <<Str(Get(p, "speech_to_text.vosk.words_json", S(W("vosk/words.json"))))>>))>>)
    IN  IF ~Truthy(Get(p, "speech_to_text.vosk.model_dir", None)) THEN Ok(<<>>)
        ELSE Ok(add_lang_args(p, Std(p, stt_command, site_ids, m), "speech_to_text"))

get_speech_to_text_command(p, e, site_ids, m) ==
    IF ~Truthy(Get(p, "speech_to_text.command.program", None)) THEN Ok(<<>>)
    ELSE IF command_args_raises(Get(p, "speech_to_text.command.arguments", Lst(<<>>))) THEN Raise("ValueError")
    ELSE LET stt_command ==
                <<W("rhasspy-remote-http-hermes"), W("--asr-command"),
                  user_command(Get(p, "speech_to_text.command.program", None),
                               Get(p, "speech_to_text.command.arguments", Lst(<<>>)))>>
         IN  Ok(add_ssl_args(p, e, add_lang_args(p, Std(p, stt_command, site_ids, m), "speech_to_text"))
                \o AsrTrainUrl(p))

get_speech_to_text_remote(p, e, site_ids, m) ==
    IF ~Truthy(Get(p, "speech_to_text.remote.url", None)) THEN Ok(<<>>)
    ELSE LET stt_command ==
                <<W("rhasspy-remote-http-hermes"), W("--asr-url"), quote(Str(Get(p, "speech_to_text.remote.url", None)))>>
         IN  Ok(add_silence_args(p,
                    add_ssl_args(p, e, add_lang_args(p, Std(p, stt_command, site_ids, m), "speech_to_text"))
                    \o AsrTrainUrl(p)))

get_speech_to_text_deepspeech(p, e, site_ids, m) ==
    LET open_transcription == Truthy(Get(p, "speech_to_text.deepspeech.open_transcription", B(FALSE)))
        language_model == IF open_transcription THEN Get(p, "speech_to_text.deepspeech.base_language_model", None)
                          ELSE Get(p, "speech_to_text.deepspeech.language_model", None)
        scorer == IF open_transcription THEN Get(p, "speech_to_text.deepspeech.base_scorer", None)
                  ELSE Get(p, "speech_to_text.deepspeech.scorer", None)
        stt_command ==
            <<W("rhasspy-asr-deepspeech-hermes"),
              W("--model"), quote(write_path(e, <<Str(Get(p, "speech_to_text.deepspeech.acoustic_model", None))>>)),
              W("--language-model"), quote(write_path(e, <<Str(language_model)>>)),
              W("--scorer"), quote(write_path(e, <<Str(scorer)>>)),
              W("--alphabet"), quote(write_path(e, <<Str(Get(p, "speech_to_text.deepspeech.alphabet", None))>>))>>
    IN  IF ~Truthy(Get(p, "speech_to_text.deepspeech.acoustic_model", None)) THEN Ok(<<>>)
        ELSE IF ~Truthy(language_model) THEN Ok(<<>>)
        ELSE IF ~Truthy(scorer) THEN Ok(<<>>)
        ELSE IF ~Truthy(Get(p, "speech_to_text.deepspeech.alphabet", None)) THEN Ok(<<>>)
        ELSE Ok(add_silence_args(p,
                    add_lang_args(p, Std(p, stt_command, site_ids, m), "speech_to_text")
                    \o (IF open_transcription THEN <<W("--no-overwrite-train")>> ELSE <<>>)
                    \o OptWP(p, e, "speech_to_text.deepspeech.base_language_model_fst", "--base-language-model-fst")
                    \o OptStr(p, "speech_to_text.deepspeech.mix_weight", "--base-language-model-weight")
                    \o OptWP(p, e, "speech_to_text.deepspeech.mix_fst", "--mixed-language-model-fst")
                    \o OptStr(p, "speech_to_text.deepspeech.lm_alpha", "--lm-alpha")
                    \o OptStr(p, "speech_to_text.deepspeech.lm_beta", "--lm-beta")))

\* get_speech_to_text: the command of the speech to text service
get_speech_to_text(stt_system, p, e, site_ids, m) ==
    CASE stt_system = S(W("pocketsphinx")) -> get_speech_to_text_pocketsphinx(p, e, site_ids, m)
      [] stt_system = S(W("kaldi")) -> get_speech_to_text_kaldi(p, e, site_ids, m)
      [] stt_system = S(W("vosk")) -> get_speech_to_text_vosk(p, e, site_ids, m)
      [] stt_system = S(W("command")) -> get_speech_to_text_command(p, e, site_ids, m)
      [] stt_system = S(W("remote")) -> get_speech_to_text_remote(p, e, site_ids, m)
      [] stt_system = S(W("deepspeech")) -> get_speech_to_text_deepspeech(p, e, site_ids, m)
      [] OTHER -> Raise("ValueError")

-----------------------------------------------------------------------------
(* Intent recognition *)

\* the replace_numbers block: the flag and, with a locale, the language flag
ReplaceNumbers(p, language_flag) ==
    IF Truthy(Get(p, "intent.replace_numbers", B(TRUE)))
    THEN <<W("--replace-numbers")>> \o Opt(p, "locale", language_flag)
    ELSE <<>>

\* fsticuffs treating a missing intent graph as an error
get_intent_recognition_fsticuffs_strict(p, e, site_ids, m) ==
    IF ~Truthy(Get(p, "intent.fsticuffs.intent_graph", None)) THEN Raise("ValueError")
    ELSE Ok(Std(p, <<W("rhasspy-nlu-hermes")>>, site_ids, m))

get_intent_recognition_fsticuffs(p, e, site_ids, m) ==
    LET intent_command ==
            <<W("rhasspy-nlu-hermes"), W("--intent-graph"),
              quote(write_path(e, <<Str(Get(p, "intent.fsticuffs.intent_graph", None))>>))>>
    IN  IF ~Truthy(Get(p, "intent.fsticuffs.intent_graph", None)) THEN Ok(<<>>)
        ELSE Ok(add_lang_args(p, Std(p, intent_command, site_ids, m), "intent")
                \o (IF ~Truthy(Get(p, "intent.fsticuffs.fuzzy", B(TRUE))) THEN <<W("--no-fuzzy")>> ELSE <<>>)
                \o ReplaceNumbers(p, "--language")
                \o Opt(p, "speech_to_text.dictionary_casing", "--casing")
                \o <<W("--converters-dir"),
                     quote(write_path(e, <<Str(Get(p, "intent.fsticuffs.converters_dir", S(W("converters"))))>>))>>
                \o (IF Truthy(Get(p, "intent.fsticuffs.failure_token", S(W("<unk>"))))
                    THEN <<W("--failure-token"), Str(Get(p, "intent.fsticuffs.failure_token", S(W("<unk>"))))>>
                    ELSE <<>>))

get_intent_recognition_fuzzywuzzy(p, e, site_ids, m) ==
    LET intent_command ==
            <<W("rhasspy-fuzzywuzzy-hermes"),
              W("--intent-graph"), quote(write_path(e, <<Str(Get(p, "intent.fsticuffs.intent_graph", None))>>)),
              W("--examples"), quote(write_path(e, <<Str(Get(p, "intent.fuzzywuzzy.examples_json", None))>>))>>
    IN  IF ~Truthy(Get(p, "intent.fsticuffs.intent_graph", None)) THEN Ok(<<>>)
        ELSE IF ~Truthy(Get(p, "intent.fuzzywuzzy.examples_json", None)) THEN Ok(<<>>)
        ELSE Ok(add_lang_args(p, Std(p, intent_command, site_ids, m), "intent")
                \o OptSet(p, "intent.fuzzywuzzy.min_confidence", "--confidence-threshold")
                \o ReplaceNumbers(p, "--language")
                \o Opt(p, "speech_to_text.dictionary_casing", "--casing")
                \o <<W("--converters-dir"),
                     quote(write_path(e, <<Str(Get(p, "intent.fuzzywuzzy.converters_dir", S(W("converters"))))>>))>>)

get_intent_recognition_rasa(p, e, site_ids, m) ==
    LET intent_command ==
            <<W("rhasspy-rasa-nlu-hermes"), W("--rasa-url"), quote(Str(Get(p, "intent.rasa.url", S(<<>>))))>>
    IN  IF ~Truthy(Get(p, "intent.rasa.url", S(<<>>))) THEN Ok(<<>>)
        ELSE Ok(add_lang_args(p, Std(p, intent_command, site_ids, m), "intent")
                \o OptQ(p, "intent.rasa.language", "--rasa-language")
                \o OptWP(p, e, "intent.rasa.config_yaml", "--rasa-config")
                \o OptQ(p, "intent.rasa.project_name", "--rasa-project")
                \o OptWP(p, e, "intent.rasa.examples_markdown", "--examples-path")
                \o ReplaceNumbers(p, "--number-language")
                \o Opt(p, "speech_to_text.dictionary_casing", "--casing"))

get_intent_recognition_command(p, e, site_ids, m) ==
    LET training == /\ Get(p, "training.intent.system", S(W("auto"))) = S(W("auto"))
                    /\ Truthy(Get(p, "training.intent.command.program", None))
        intent_command ==
            <<W("rhasspy-remote-http-hermes"), W("--nlu-command"),
              user_command(Get(p, "intent.command.program", None), Get(p, "intent.command.arguments", Lst(<<>>)))>>
    IN  IF ~Truthy(Get(p, "intent.command.program", None)) THEN Ok(<<>>)
        ELSE IF command_args_raises(Get(p, "intent.command.arguments", Lst(<<>>))) THEN Raise("ValueError")
        ELSE IF training /\ command_args_raises(Get(p, "training.intent.command.arguments", Lst(<<>>)))
        THEN Raise("ValueError")
        ELSE Ok(add_ssl_args(p, e,
                    add_lang_args(p, Std(p, intent_command, site_ids, m), "intent")
                    \o Opt(p, "speech_to_text.dictionary_casing", "--casing"))
                \o (IF training
                    THEN <<W("--nlu-train-command"),
                           user_command(Get(p, "training.intent.command.program", None),
                                        Get(p, "training.intent.command.arguments", Lst(<<>>)))>>
                    ELSE <<>>))

get_intent_recognition_snips(p, e, site_ids, m) ==
    LET language == IF Truthy(Get(p, "intent.snips.language", None)) THEN Get(p, "intent.snips.language", None)
                    ELSE Get(p, "language", S(W("en")))
        intent_command == <<W("rhasspy-snips-nlu-hermes"), W("--language"), quote(Str(language))>>
    IN  IF ~Truthy(language) THEN Ok(<<>>)
        ELSE Ok(Std(p, intent_command, site_ids, m)
                \o OptWP(p, e, "intent.snips.engine_dir", "--engine-path")
                \o OptWP(p, e, "intent.snips.dataset_file", "--dataset-path")
                \o Opt(p, "speech_to_text.dictionary_casing", "--casing"))

get_intent_recognition_remote(p, e, site_ids, m) ==
    LET intent_command ==
            <<W("rhasspy-remote-http-hermes"), W("--nlu-url"), quote(Str(Get(p, "intent.remote.url", None)))>>
    IN  IF ~Truthy(Get(p, "intent.remote.url", None)) THEN Ok(<<>>)
        ELSE Ok(add_ssl_args(p, e,
                    add_lang_args(p, Std(p, intent_command, site_ids, m), "intent")
                    \o Opt(p, "speech_to_text.dictionary_casing", "--casing"))
                \o (IF Get(p, "training.intent.system", S(W("auto"))) = S(W("auto"))
                    THEN OptQ(p, "training.intent.remote.url", "--nlu-train-url") ELSE <<>>))

\* get_intent_recognition: the command of the intent recognition service
get_intent_recognition(intent_system, p, e, site_ids, m) ==
    CASE intent_system = S(W("fsticuffs")) -> get_intent_recognition_fsticuffs(p, e, site_ids, m)
      [] intent_system = S(W("fuzzywuzzy")) -> get_intent_recognition_fuzzywuzzy(p, e, site_ids, m)
      [] intent_system = S(W("rasa")) -> get_intent_recognition_rasa(p, e, site_ids, m)
      [] intent_system = S(W("command")) -> get_intent_recognition_command(p, e, site_ids, m)
      [] intent_system = S(W("snips")) -> get_intent_recognition_snips(p, e, site_ids, m)
      [] intent_system = S(W("remote")) -> get_intent_recognition_remote(p, e, site_ids, m)
      [] OTHER -> Raise("ValueError")

-----------------------------------------------------------------------------
(* Intent handling *)

get_intent_handling_hass(p, e, site_ids, m) ==
    LET handle_command ==
            <<W("rhasspy-homeassistant-hermes"), W("--url"), quote(Str(Get(p, "home_assistant.url", None)))>>
    IN  IF ~Truthy(Get(p, "home_assistant.url", None)) THEN Ok(<<>>)
        ELSE Ok(Std(p, handle_command, site_ids, m)
                \o Opt(p, "home_assistant.handle_type", "--handle-type")
                \o Opt(p, "home_assistant.access_token", "--access-token")
                \o Opt(p, "home_assistant.api_password", "--api-password")
                \o Opt(p, "home_assistant.event_type_format", "--event-type-format")
                \o Opt(p, "home_assistant.pem_file", "--pem-file"))

get_intent_handling_remote(p, e, site_ids, m) ==
    LET handle_command ==
            <<W("rhasspy-remote-http-hermes"), W("--handle-url"), quote(Str(Get(p, "handle.remote.url", None)))>>
    IN  IF ~Truthy(Get(p, "handle.remote.url", None)) THEN Ok(<<>>)
        ELSE Ok(add_ssl_args(p, e, Std(p, handle_command, site_ids, m)))

get_intent_handling_command(p, e, site_ids, m) ==
    LET user_program == S(ExpandVars(e, Str(Get(p, "handle.command.program", None))))
        handle_command ==
            <<W("rhasspy-remote-http-hermes"), W("--handle-command"),
              user_command(user_program, Get(p, "handle.command.arguments", Lst(<<>>)))>>
    IN  IF ~Truthy(Get(p, "handle.command.program", None)) THEN Ok(<<>>)
        ELSE IF command_args_raises(Get(p, "handle.command.arguments", Lst(<<>>))) THEN Raise("ValueError")
        ELSE Ok(add_ssl_args(p, e, Std(p, handle_command, site_ids, m)))

\* get_intent_handling: the command of the intent handling service
get_intent_handling(handle_system, p, e, site_ids, m) ==
    CASE handle_system = S(W("hass")) -> get_intent_handling_hass(p, e, site_ids, m)
      [] handle_system = S(W("remote")) -> get_intent_handling_remote(p, e, site_ids, m)
      [] handle_system = S(W("command")) -> get_intent_handling_command(p, e, site_ids, m)
      [] OTHER -> Raise("ValueError")

-----------------------------------------------------------------------------
(* Dialogue *)

RECURSIVE Flat(_)
\* the characters of a string as one profile key fragment
Flat(s) == IF s = <<>> THEN "" ELSE Head(s) \o Flat(Tail(s))

\* --sound wake/recorded/error, for the sounds the profile names
DialogueSound(p, e, sound_name) ==
    IF Truthy(Get(p, "sounds." \o sound_name, None))
    THEN <<W("--sound"), W(sound_name), quote(ExpandVars(e, Str(Get(p, "sounds." \o sound_name, None))))>>
    ELSE <<>>

RECURSIVE NoSoundArgs(_)
\* --no-sound for every master site id, as split
NoSoundArgs(site_ids) ==
    IF site_ids = <<>> THEN <<>> ELSE <<W("--no-sound"), Head(site_ids)>> \o NoSoundArgs(Tail(site_ids))

RECURSIVE SoundSuffixArgs(_)
SoundSuffixArgs(suffixes) ==
    IF suffixes = <<>> THEN <<>> ELSE <<W("--sound-suffix"), Head(suffixes)>> \o SoundSuffixArgs(Tail(suffixes))

get_dialogue_rhasspy(p, e, site_ids, master, m) ==
    LET sound_system == Get(p, "sounds.system", S(W("dummy")))
        speech_system == Get(p, "speech_to_text.system", S(W("dummy")))
    IN  Ok(Std(p, <<W("rhasspy-dialogue-hermes")>>, site_ids, m)
           \o OptStr(p, "dialogue.session_timeout", "--session-timeout")
           \o (IF Truthy(Get(p, "dialogue.satellite_site_ids", None)) \/ sound_system # S(W("dummy"))
               THEN DialogueSound(p, e, "wake") \o DialogueSound(p, e, "recorded") \o DialogueSound(p, e, "error")
               ELSE <<>>)
           \o (IF sound_system = S(W("dummy")) THEN NoSoundArgs(master) ELSE <<>>)
           \o OptStr(p, "dialogue.volume", "--volume")
           \o OptStr(p, "dialogue.group_separator", "--group-separator")
           \o (IF speech_system # S(W("dummy"))
               THEN OptSet(p, "speech_to_text." \o Flat(Str(speech_system)) \o ".min_confidence", "--min-asr-confidence")
               ELSE <<>>)
           \o OptSet(p, "dialogue.say_chars_per_second", "--say-chars-per-second")
           \o (IF Get(p, "dialogue.sound_suffixes", None).t # "none"
               THEN SoundSuffixArgs(Get(p, "dialogue.sound_suffixes", None).m) ELSE <<>>))

\* get_dialogue returning nothing for an id it does not know
get_dialogue_lenient(dialogue_system, p, e, site_ids, master, m) ==
    IF dialogue_system = S(W("rhasspy")) THEN get_dialogue_rhasspy(p, e, site_ids, master, m)
    ELSE Ok(<<>>)

\* get_dialogue: the command of the dialogue service
get_dialogue(dialogue_system, p, e, site_ids, master, m) ==
    IF dialogue_system = S(W("rhasspy")) THEN get_dialogue_rhasspy(p, e, site_ids, master, m)
    ELSE Raise("ValueError")

-----------------------------------------------------------------------------
(* Text to speech *)

\* the --volume block every variant carries
TtsVolume(p, variant) == OptStr(p, "text_to_speech." \o variant \o ".volume", "--volume")

get_text_to_speech_espeak(p, e, site_ids, m) ==
    LET espeak_command ==
            <<W("espeak"), W("--stdout"), W("-v"), <<"{", "lang", "}">>>>
            \o Get(p, "text_to_speech.espeak.arguments", Lst(<<>>)).m
        own == Strip(Str(Get(p, "text_to_speech.espeak.voice", S(<<>>))))
        language == Strip(Str(Get(p, "language", None)))
        voice == IF own # <<>> THEN own ELSE IF language # <<>> THEN language ELSE W("en-us")
        tts_command ==
            <<W("rhasspy-tts-cli-hermes"),
              W("--tts-command"), quote(Join(espeak_command, <<" ">>)),
              W("--voices-command"), quote(<<"espeak", " ", "--voices", " ", "|", " ", "tail", " ", "-n", " ", "+2", " ", "|", " ", "awk", " ", "'", "{", " ", "print", " ", "$", "2,", "$", "4", " ", "}", "'">>),
              W("--language"), quote(voice)>>
            \o TtsVolume(p, "espeak")
    IN  IF own = <<>> /\ Get(p, "language", None).t # "str" THEN Raise("AttributeError")
        ELSE Ok(Std(p, tts_command, site_ids, m))

get_text_to_speech_flite(p, e, site_ids, m) ==
    LET flite_command ==
            <<W("flite"), W("-o"), <<"/", "dev", "/", "stdout">>, W("-voice"), <<"{", "lang", "}">>>>
            \o Get(p, "text_to_speech.flite.arguments", Lst(<<>>)).m
            \o <<W("-t")>>
        tts_command ==
            <<W("rhasspy-tts-cli-hermes"),
              W("--tts-command"), quote(Join(flite_command, <<" ">>)),
              W("--voices-command"), quote(<<"flite", " ", "-lv", " ", "|", " ", "cut", " ", "-d:", " ", "-f", " ", "2-", " ", "|", " ", "tr", " ", "'", " ", "'", " ", "'", "\\", "n", "'">>),
              W("--language"), quote(Strip(Str(Get(p, "text_to_speech.flite.voice", S(W("slt"))))))>>
            \o TtsVolume(p, "flite")
    IN  Ok(Std(p, tts_command, site_ids, m))

\* locale.replace("_", "-")
DashLocale(s) == [i \in 1..Len(s) |-> IF s[i] = "_" THEN "-" ELSE s[i]]

\* --language from the variant's own setting, else from the profile locale
TtsLanguage(p, variant) ==
    IF Str(Get(p, "text_to_speech." \o variant \o ".language", S(<<>>))) # <<>>
    THEN <<W("--language"), quote(Str(Get(p, "text_to_speech." \o variant \o ".language", S(<<>>))))>>
    ELSE IF Strip(Str(Get(p, "locale", S(<<>>)))) # <<>>
    THEN <<W("--language"), quote(DashLocale(Strip(Str(Get(p, "locale", S(<<>>))))))>>
    ELSE <<>>

get_text_to_speech_picotts(p, e, site_ids, m) ==
    LET picotts_command ==
            IF e.pico2wave THEN <<"pico2wave", " ", "-l", " ", "{", "lang", "}", " ", "-w", " ", "{", "file", "}">>
            ELSE <<"nanotts", " ", "-v", " ", "{", "lang", "}", " ", "-o", " ", "{", "file", "}">>
        tts_command ==
            <<W("rhasspy-tts-cli-hermes"), W("--tts-command"), quote(picotts_command), W("--temporary-wav")>>
            \o (IF e.pico2wave THEN <<>> ELSE <<W("--text-on-stdin")>>)
            \o TtsVolume(p, "picotts")
    IN  Ok(Std(p, tts_command, site_ids, m) \o TtsLanguage(p, "picotts"))

get_text_to_speech_nanotts(p, e, site_ids, m) ==
    LET tts_command ==
            <<W("rhasspy-tts-cli-hermes"), W("--tts-command"), quote(<<"nanotts", " ", "-v", " ", "{", "lang", "}", " ", "-o", " ", "{", "file", "}">>),
              W("--temporary-wav"), W("--text-on-stdin")>>
            \o TtsVolume(p, "nanotts")
        own == Str(Get(p, "text_to_speech.nanotts.language", S(<<>>)))
        locale == Strip(Str(Get(p, "locale", S(<<>>))))
        langdir == Str(Get(p, "text_to_speech.nanotts.langdir", S(<<>>)))
    IN  IF langdir # <<>> /\ own # <<>> THEN Raise("UnboundLocalError")
        ELSE Ok(Std(p, tts_command, site_ids, m)
                \o TtsLanguage(p, "nanotts")
                \o (IF langdir # <<>> THEN <<W("-l"), quote(ExpandVars(e, DashLocale(locale)))>> ELSE <<>>))

RECURSIVE MaryEffects(_)
\* --data-urlencode key=value for every effect
MaryEffects(items) ==
    IF items = <<>> THEN <<>>
    ELSE <<W("--data-urlencode"), quote(Head(items)[1] \o <<"=">> \o Str(Head(items)[2]))>> \o MaryEffects(Tail(items))

\* s.endswith(suffix)
EndsWith(s, suffix) == Len(s) >= Len(suffix) /\ SubSeq(s, Len(s) - Len(suffix) + 1, Len(s)) = suffix

\* s without its last n characters
DropLast(s, n) == SubSeq(s, 1, Len(s) - n)

get_text_to_speech_marytts(p, e, site_ids, m) ==
    LET url == Strip(Str(Get(p, "text_to_speech.marytts.url", S(<<>>))))
        voice == Strip(Str(Get(p, "text_to_speech.marytts.voice", S(<<>>))))
        marytts_command ==
            <<<<"{", "%%", " ", "if", " ", "\"", "/", "\"", " ", "in", " ", "lang:", " ", "%%", "}", "{", "%%", " ", "set", " ", "lang,", " ", "voice", " ", "=", " ", "lang.split", "(", "\"", "/", "\"", ",", " ", "maxsplit=1", ")", " ", "%%", "}", "{", "%%", " ", "endif", " ", "%%", "}">>,
              W("curl"), W("-sS"), W("-X"), W("GET"), W("-G"), W("--output"), W("-"),
              W("--data-urlencode"), W("INPUT_TYPE=TEXT"), W("--data-urlencode"), W("OUTPUT_TYPE=AUDIO"),
              W("--data-urlencode"), W("AUDIO=WAVE"), W("--data-urlencode"), <<"LOCALE=", "{", "{", " ", "lang", " ", "}", "}">>,
              <<"{", "%%", " ", "if", " ", "voice:", " ", "%%", "}", "--data-urlencode", "{", "%%", " ", "endif", " ", "%%", "}">>,
              <<"{", "%%", " ", "if", " ", "voice:", " ", "%%", "}", "VOICE=", "{", "{", " ", "voice", " ", "}", "}", "{", "%%", " ", "endif", " ", "%%", "}">>,
              W("--data-urlencode"), <<"INPUT_TEXT=", "\"", "$", "0", "\"">>>>
            \o MaryEffects(Get(p, "text_to_speech.marytts.effects", Dict(<<>>)).d)
            \o <<quote(url)>>
            \o (IF voice # <<>> THEN <<W("--data-urlencode"), quote(W("VOICE=") \o voice)>> ELSE <<>>)
        bash_command == <<W("bash"), W("-c"), quote(Join(marytts_command, <<" ">>))>>
        u1 == IF EndsWith(url, <<"/">>) THEN DropLast(url, 1) ELSE url
        server_base_url == IF EndsWith(u1, <<"/", "process">>) THEN DropLast(u1, 2) ELSE u1
        voices_command ==
            <<W("curl"), W("-sS"), W("-X"), W("GET"), quote(server_base_url \o <<"/", "voices">>)>>
        tts_command ==
            <<W("rhasspy-tts-cli-hermes"),
              W("--tts-command"), quote(Join(bash_command, <<" ">>)),
              W("--voices-command"), quote(Join(voices_command, <<" ">>)),
              W("--language"), quote(Strip(Str(Get(p, "text_to_speech.marytts.locale", S(W("en-US")))))),
              W("--use-jinja2")>>
            \o TtsVolume(p, "marytts")
    IN  IF Get(p, "text_to_speech.marytts.url", S(<<>>)).t # "str" THEN Raise("AttributeError")
        ELSE IF url = <<>> THEN Ok(<<>>)
        ELSE IF Get(p, "text_to_speech.marytts.voice", S(<<>>)).t # "str" THEN Raise("AttributeError")
        ELSE Ok(Std(p, tts_command, site_ids, m))

get_text_to_speech_wavenet(p, e, site_ids, m) ==
    LET tts_command ==
            <<W("rhasspy-tts-wavenet-hermes"),
              W("--credentials-json"), quote(write_path(e, <<Str(Get(p, "text_to_speech.wavenet.credentials_json", None))>>)),
              W("--cache-dir"), quote(write_path(e, <<Str(Get(p, "text_to_speech.wavenet.cache_dir", None))>>)),
              W("--voice"), quote(Strip(Str(Get(p, "text_to_speech.wavenet.voice", S(W("en-US-Wavenet-C")))))),
              W("--sample-rate"), quote(Str(Get(p, "text_to_speech.wavenet.sample_rate", S(W("22050")))))>>
            \o TtsVolume(p, "wavenet")
    IN  IF ~Truthy(Get(p, "text_to_speech.wavenet.credentials_json", None)) THEN Ok(<<>>)
        ELSE IF ~Truthy(Get(p, "text_to_speech.wavenet.cache_dir", None)) THEN Ok(<<>>)
        ELSE Ok(Std(p, tts_command, site_ids, m))

\* the index of the last "/" of s, 0 when there is none
LastSlash(s) == IF \E i \in 1..Len(s) : s[i] = "/" THEN CHOOSE i \in 1..Len(s) : s[i] = "/" /\ \A j \in (i + 1)..Len(s) : s[j] # "/" ELSE 0

\* urljoin(url, relative) for a relative path: the last segment of the base path is replaced
urljoin(url, relative) ==
    LET slashes == {i \in 1..Len(url) : url[i] = "/"}
        has_netloc == \E i \in 1..(Len(url) - 1) : url[i] = "/" /\ url[i + 1] = "/"
        netloc_at == CHOOSE i \in 1..(Len(url) - 1) : url[i] = "/" /\ url[i + 1] = "/" /\ \A j \in 1..(i - 1) : url[j] # "/"
    IN  IF url = <<>> THEN relative
        ELSE IF has_netloc
        THEN (IF LastSlash(url) > netloc_at + 1 THEN SubSeq(url, 1, LastSlash(url)) \o relative
              ELSE url \o <<"/">> \o relative)
        ELSE IF \E i \in 1..Len(url) : url[i] = ":" THEN relative
        ELSE SubSeq(url, 1, LastSlash(url)) \o relative

get_text_to_speech_opentts(p, e, site_ids, m) ==
    LET url == Strip(Str(Get(p, "text_to_speech.opentts.url", S(<<>>))))
        voice == Strip(Str(Get(p, "text_to_speech.opentts.voice", S(<<>>))))
        opentts_command ==
            <<W("curl"), W("-sS"), W("-X"), W("GET"), W("-G"), W("--output"), W("-")>>
            \o (IF voice # <<>> THEN <<W("--data-urlencode"), W("voice=") \o voice>> ELSE <<>>)
            \o <<W("--data-urlencode"), <<"text=", "\"", "$", "0", "\"">>, quote(urljoin(url, <<"api", "/", "tts">>))>>
        bash_command == <<W("bash"), W("-c"), quote(Join(opentts_command, <<" ">>))>>
        voices_command ==
            <<W("curl"), W("-sS"), W("-X"), W("GET"), quote(urljoin(url, <<"api", "/", "voices">>)),
              W("|"), W("jq"), W("--raw-output"), quote(<<"keys", "[", "]", " ", "as", " ", "$", "k", " ", "|", " ", "\"", "\\", "(", "$", "k", ")", " ", "\\", "(", ".", "[", "$", "k", "]", " ", "|", " ", ".name", ")", "\"">>)>>
        tts_command ==
            <<W("rhasspy-tts-cli-hermes"),
              W("--tts-command"), quote(Join(bash_command, <<" ">>)),
              W("--voices-command"), quote(Join(voices_command, <<" ">>))>>
            \o TtsVolume(p, "opentts")
    IN  IF Get(p, "text_to_speech.opentts.url", S(<<>>)).t # "str" THEN Raise("AttributeError")
        ELSE IF url = <<>> THEN Ok(<<>>)
        ELSE IF Get(p, "text_to_speech.opentts.voice", S(<<>>)).t # "str" THEN Raise("AttributeError")
        ELSE Ok(Std(p, tts_command, site_ids, m))

\* the vocoders the larynx variant knows
LarynxVocoders == {W("universal_large"), W("vctk_medium"), W("vctk_small")}

RECURSIVE LarynxSettingArgs(_, _, _)
LarynxSettingArgs(flag, voice, items) ==
    IF items = <<>> THEN <<>>
    ELSE <<W(flag), quote(voice), quote(Head(items)[1]), quote(Str(Head(items)[2]))>>
         \o LarynxSettingArgs(flag, voice, Tail(items))

RECURSIVE LarynxVoiceArgs(_, _, _)
\* the loop over voices.items() of the larynx variant
LarynxVoiceArgs(e, vocoder, voices) ==
    IF voices = <<>> THEN <<>>
    ELSE LET voice == Head(voices)[1]
             voice_settings == Head(voices)[2].d
         IN  <<W("--voice"), quote(voice),
               quote(Str(DictGet(voice_settings, W("language"), None))),
               quote(Str(DictGet(voice_settings, W("tts_type"), None))),
               quote(write_path(e, <<Str(DictGet(voice_settings, W("tts_path"), None))>>)),
               quote(Str(DictGet(voice_settings, W("vocoder_type"), S(W("hifi_gan"))))),
               quote(write_path(e, <<Str(DictGet(voice_settings, W("vocoder_path"),
                                                 S(<<"tts", "/", "larynx", "/", "hifi_gan", "/">> \o vocoder)))>>))>>
             \o LarynxSettingArgs("--tts-setting", voice, DictGet(voice_settings, W("tts_settings"), Dict(<<>>)).d)
             \o LarynxSettingArgs("--vocoder-setting", voice, DictGet(voice_settings, W("vocoder_settings"), Dict(<<>>)).d)
             \o LarynxVoiceArgs(e, vocoder, Tail(voices))

get_text_to_speech_larynx(p, e, site_ids, m) ==
    LET voices == Get(p, "text_to_speech.larynx.voices", Dict(<<>>)).d
        default_voice == IF Str(Get(p, "text_to_speech.larynx.default_voice", S(<<>>))) # <<>>
                         THEN Str(Get(p, "text_to_speech.larynx.default_voice", S(<<>>)))
                         ELSE voices[1][1]
        larynx_vocoder == Str(Get(p, "text_to_speech.larynx.vocoder", S(W("vctk_medium"))))
        tts_command ==
            <<W("rhasspy-tts-larynx-hermes"),
              W("--default-voice"), quote(default_voice),
              W("--cache-dir"), quote(write_path(e, <<Str(Get(p, "text_to_speech.larynx.cache_dir", None))>>)),
              W("--gruut-dir"), quote(write_path(e, <<W("gruut")>>))>>
            \o LarynxVoiceArgs(e, larynx_vocoder, voices)
            \o TtsVolume(p, "larynx")
    IN  IF voices = <<>> THEN Ok(<<>>)
        ELSE IF ~Truthy(Get(p, "text_to_speech.larynx.cache_dir", None)) THEN Ok(<<>>)
        ELSE IF larynx_vocoder \notin LarynxVocoders THEN Raise("KeyError")
        ELSE IF \E i \in 1..Len(voices) :
                    \E k \in {W("language"), W("tts_type"), W("tts_path")} : ~DictHas(voices[i][2].d, k)
        THEN Raise("KeyError")
        ELSE Ok(Std(p, tts_command, site_ids, m))

get_text_to_speech_command(p, e, site_ids, m) ==
    LET voices == Truthy(Get(p, "text_to_speech.command.voices_program", None))
        tts_command ==
            <<W("rhasspy-tts-cli-hermes"), W("--tts-command"),
              user_command(Get(p, "text_to_speech.command.say_program", None),
                           Get(p, "text_to_speech.command.say_arguments", Lst(<<>>)))>>
    IN  IF ~Truthy(Get(p, "text_to_speech.command.say_program", None)) THEN Ok(<<>>)
        ELSE IF command_args_raises(Get(p, "text_to_speech.command.say_arguments", Lst(<<>>))) THEN Raise("ValueError")
        ELSE IF voices /\ command_args_raises(Get(p, "text_to_speech.command.voices_arguments", Lst(<<>>)))
        THEN Raise("ValueError")
        ELSE Ok(Std(p, tts_command, site_ids, m)
                \o TtsVolume(p, "command")
                \o (IF voices
                    THEN <<W("--voices-command"),
                           user_command(Get(p, "text_to_speech.command.voices_program", None),
                                        Get(p, "text_to_speech.command.voices_arguments", Lst(<<>>)))>>
                    ELSE <<>>)
                \o OptQ(p, "text_to_speech.command.language", "--language"))

get_text_to_speech_remote(p, e, site_ids, m) ==
    LET tts_command ==
            <<W("rhasspy-remote-http-hermes"), W("--tts-url"), quote(Str(Get(p, "text_to_speech.remote.url", None)))>>
    IN  IF ~Truthy(Get(p, "text_to_speech.remote.url", None)) THEN Ok(<<>>)
        ELSE Ok(add_ssl_args(p, e, Std(p, tts_command, site_ids, m)))

\* get_text_to_speech: the command of the text to speech service
get_text_to_speech(tts_system, p, e, site_ids, m) ==
    CASE tts_system = S(W("espeak")) -> get_text_to_speech_espeak(p, e, site_ids, m)
      [] tts_system = S(W("flite")) -> get_text_to_speech_flite(p, e, site_ids, m)
      [] tts_system = S(W("picotts")) -> get_text_to_speech_picotts(p, e, site_ids, m)
      [] tts_system = S(W("nanotts")) -> get_text_to_speech_nanotts(p, e, site_ids, m)
      [] tts_system = S(W("marytts")) -> get_text_to_speech_marytts(p, e, site_ids, m)
      [] tts_system = S(W("wavenet")) -> get_text_to_speech_wavenet(p, e, site_ids, m)
      [] tts_system = S(W("opentts")) -> get_text_to_speech_opentts(p, e, site_ids, m)
      [] tts_system = S(W("larynx")) -> get_text_to_speech_larynx(p, e, site_ids, m)
      [] tts_system = S(W("command")) -> get_text_to_speech_command(p, e, site_ids, m)
      [] tts_system = S(W("remote")) -> get_text_to_speech_remote(p, e, site_ids, m)
      [] OTHER -> Raise("ValueError")

-----------------------------------------------------------------------------
(* Webhooks *)

RECURSIVE WebhookUrls(_, _)
\* --webhook topic url for every url of one topic
WebhookUrls(topic, urls) ==
    IF urls = <<>> THEN <<>>
    ELSE <<W("--webhook"), quote(topic), quote(Head(urls))>> \o WebhookUrls(topic, Tail(urls))

\* a string stands for the list holding it
UrlList(v) == IF v.t = "str" THEN <<v.s>> ELSE v.m

RECURSIVE WebhookTopics(_)
\* the topic -> urls dictionary under the mqtt key
WebhookTopics(items) ==
    IF items = <<>> THEN <<>>
    ELSE WebhookUrls(Head(items)[1], UrlList(Head(items)[2])) \o WebhookTopics(Tail(items))

RECURSIVE WebhookArgs(_)
\* the loop over webhooks.items()
WebhookArgs(items) ==
    IF items = <<>> THEN <<>>
    ELSE (IF Head(items)[1] = W("awake")
          THEN WebhookUrls(<<"hermes", "/", "hotword", "/", "+", "/", "detected">>, UrlList(Head(items)[2]))
          ELSE IF Head(items)[1] = W("mqtt") THEN WebhookTopics(Head(items)[2].d)
          ELSE <<>>)
         \o WebhookArgs(Tail(items))

\* get_webhooks: the command of the webhooks service
get_webhooks(webhooks, p, e, site_ids, m) ==
    Ok(add_ssl_args(p, e, Std(p, <<W("rhasspy-remote-http-hermes")>>, site_ids, m)) \o WebhookArgs(webhooks))

\* webhook_events: the keys of webhooks other than satellite_site_ids
webhook_events(p) ==
    LET webhooks == Get(p, "webhooks", Dict(<<>>)).d
    IN  {i \in 1..Len(webhooks) : webhooks[i][1] # W("satellite_site_ids")}

-----------------------------------------------------------------------------
(* The stages, in the order profile_to_conf walks them *)

\* the stage table with the speakers after the wake word
StagesSwapped ==
    << [stage |-> "microphone", program |-> "microphone", service |-> "microphone", extra |-> "devices"],
       [stage |-> "wake", program |-> "wake_word", service |-> "wake", extra |-> "volumes"],
       [stage |-> "sounds", program |-> "speakers", service |-> "speakers", extra |-> "devices"],
       [stage |-> "speech_to_text", program |-> "speech_to_text", service |-> "speech_to_text", extra |-> "volumes"],
       [stage |-> "intent", program |-> "intent_recognition", service |-> "intent_recognition", extra |-> "volumes"],
       [stage |-> "handle", program |-> "intent_handling", service |-> "", extra |-> ""],
       [stage |-> "text_to_speech", program |-> "text_to_speech", service |-> "text_to_speech", extra |-> ""],
       [stage |-> "dialogue", program |-> "dialogue", service |-> "dialogue", extra |-> ""],
       [stage |-> "webhooks", program |-> "webhooks", service |-> "webhooks", extra |-> ""] >>

\* stage: profile prefix; program: supervisord program; service: compose service ("" when there is none)
Stages ==
    << [stage |-> "microphone", program |-> "microphone", service |-> "microphone", extra |-> "devices"],
       [stage |-> "sounds", program |-> "speakers", service |-> "speakers", extra |-> "devices"],
       [stage |-> "wake", program |-> "wake_word", service |-> "wake", extra |-> "volumes"],
       [stage |-> "speech_to_text", program |-> "speech_to_text", service |-> "speech_to_text", extra |-> "volumes"],
       [stage |-> "intent", program |-> "intent_recognition", service |-> "intent_recognition", extra |-> "volumes"],
       [stage |-> "handle", program |-> "intent_handling", service |-> "", extra |-> ""],
       [stage |-> "text_to_speech", program |-> "text_to_speech", service |-> "text_to_speech", extra |-> ""],
       [stage |-> "dialogue", program |-> "dialogue", service |-> "dialogue", extra |-> ""],
       [stage |-> "webhooks", program |-> "webhooks", service |-> "webhooks", extra |-> ""] >>

\* the stages profile_to_docker walks: every stage with a compose service
DockerStages == {i \in 1..Len(Stages) : Stages[i].service # ""}

\* the system id of a stage, "dummy" when the profile names none
system_of(p, stage) == Get(p, stage \o ".system", S(W("dummy")))

\* a stage test that lets the hermes id through to the builder
enabled_hermes(p, stage) ==
    IF stage = "webhooks" THEN webhook_events(p) # {}
    ELSE system_of(p, stage) # S(W("dummy"))

\* whether a stage is handed to its builder
enabled(p, stage) ==
    IF stage = "webhooks" THEN webhook_events(p) # {}
    ELSE system_of(p, stage) \notin {S(W("dummy")), S(W("hermes"))}

\* the builder of a stage, called as profile_to_conf and profile_to_docker call it
get_command(stage, p, e, m) ==
    LET site_ids == stage_site_ids(p, stage)
        system == system_of(p, stage)
    IN  CASE stage = "microphone" -> get_microphone(system, p, e, site_ids, m)
          [] stage = "sounds" -> get_speakers(system, p, e, site_ids, m)
          [] stage = "wake" -> get_wake(system, p, e, site_ids, m)
          [] stage = "speech_to_text" -> get_speech_to_text(system, p, e, site_ids, m)
          [] stage = "intent" -> get_intent_recognition(system, p, e, site_ids, m)
          [] stage = "handle" -> get_intent_handling(system, p, e, site_ids, m)
          [] stage = "text_to_speech" -> get_text_to_speech(system, p, e, site_ids, m)
          [] stage = "dialogue" -> get_dialogue(system, p, e, site_ids, master_site_ids(p), m)
          [] OTHER -> get_webhooks(Get(p, "webhooks", Dict(<<>>)).d, p, e, site_ids, m)

\* the profile after the builder of a stage has run
profile_after(stage, p, e) ==
    IF stage = "wake" THEN wake_profile_effect(system_of(p, stage), p, e, stage_site_ids(p, stage)) ELSE p

-----------------------------------------------------------------------------
(* supervisord.conf *)

\* write_boilerplate
write_boilerplate ==
    <<W("stopasgroup=true"), <<"stdout_logfile=", "/", "dev", "/", "stdout">>, W("stdout_logfile_maxbytes=0"),
      W("redirect_stderr=true"), <<>>>>

\* the two lines that open a stanza
stanza_head(program, command) ==
    <<<<"[program:", program, "]">>, W("command=") \o Join(command, <<" ">>)>>

\* print_mqtt
print_mqtt(mqtt_port, mosquitto_path) ==
    stanza_head("mqtt", <<mosquitto_path, W("-p"), IntStr(mqtt_port)>>) \o <<W("priority=0")>> \o write_boilerplate

\* a stanza without the boilerplate lines
print_stage_bare(program, command) ==
    IF command = <<>> THEN <<>> ELSE stanza_head(program, command) \o <<<<>>>>

\* print_microphone .. print_webhooks: nothing for an empty command
print_stage(program, command) ==
    IF command = <<>> THEN <<>> ELSE stanza_head(program, command) \o write_boilerplate

\* the header of profile_to_conf
conf_header == <<W("[supervisord]"), W("nodaemon=true"), <<>>>>

\* remote_mqtt = str(profile.get("mqtt.enabled", False)).lower() == "true"
remote_mqtt(p) == Lower(Str(Get(p, "mqtt.enabled", B(FALSE)))) = <<"t", "r", "u", "e">>

\* int(profile.get("mqtt.port", 1883)) raises ValueError
mqtt_port_raises(p) == IntSettingRaises(p, "mqtt.port")

\* broker settings that keep the profile's credentials with the internal broker
mqtt_settings_keep(p, e, internal_host) ==
    [mqtt_host |-> IF remote_mqtt(p) THEN Str(Get(p, "mqtt.host", S(W("localhost")))) ELSE W(internal_host),
     mqtt_port |-> IF ~remote_mqtt(p) THEN e.local_mqtt_port
                   ELSE IF mqtt_port_raises(p) THEN 1883 ELSE IntSetting(p, "mqtt.port", 1883),
     mqtt_username |-> Strip(Str(Get(p, "mqtt.username", S(<<>>)))),
     mqtt_password |-> Strip(Str(Get(p, "mqtt.password", S(<<>>))))]

\* the broker settings handed to the builders; internal_host is localhost in
\* profile_to_conf and mqtt in profile_to_docker
mqtt_settings(p, e, internal_host) ==
    IF remote_mqtt(p)
    THEN [mqtt_host |-> Str(Get(p, "mqtt.host", S(W("localhost")))),
          mqtt_port |-> IF mqtt_port_raises(p) THEN 1883 ELSE IntSetting(p, "mqtt.port", 1883),
          mqtt_username |-> Strip(Str(Get(p, "mqtt.username", S(<<>>)))),
          mqtt_password |-> Strip(Str(Get(p, "mqtt.password", S(<<>>))))]
    ELSE [mqtt_host |-> W(internal_host), mqtt_port |-> e.local_mqtt_port,
          mqtt_username |-> <<>>, mqtt_password |-> <<>>]

-----------------------------------------------------------------------------
(* docker-compose.yml *)

\* a compose service that names no service it depends on
ServiceAlone(name, has, image, entrypoint, command, ports, devices, volumes) ==
    [name |-> name, has |-> has \ {"depends_on"}, image |-> image, entrypoint |-> entrypoint, command |-> command,
     ports |-> ports, devices |-> devices, volumes |-> volumes, depends_on |-> <<>>, tty |-> TRUE]

\* compose_microphone .. compose_webhooks with the whole command as the command
compose_stage_whole(i, e, command) ==
    [name |-> Stages[i].service,
     has |-> {"image", "command", "depends_on", "tty"} \cup (IF Stages[i].extra = "" THEN {} ELSE {Stages[i].extra}),
     image |-> <<"rhasspy", "/">> \o Head(command), entrypoint |-> <<>>, command |-> Join(command, <<" ">>),
     ports |-> <<>>,
     devices |-> IF Stages[i].extra = "devices" THEN <<<<"/", "dev", "/", "snd">>>> ELSE <<>>,
     volumes |-> IF Stages[i].extra = "volumes" THEN <<e.user_profiles_dir \o <<":">> \o e.user_profiles_dir>> ELSE <<>>,
     depends_on |-> <<W("mqtt")>>, tty |-> TRUE]

\* a compose service; has: the keys the service carries
Service(name, has, image, entrypoint, command, ports, devices, volumes) ==
    [name |-> name, has |-> has, image |-> image, entrypoint |-> entrypoint, command |-> command,
     ports |-> ports, devices |-> devices, volumes |-> volumes,
     depends_on |-> IF "depends_on" \in has THEN <<W("mqtt")>> ELSE <<>>, tty |-> TRUE]

\* compose_mqtt
compose_mqtt(mqtt_port) ==
    Service("mqtt", {"image", "entrypoint", "command", "ports", "tty"}, W("eclipse-mosquitto"), W("mosquitto"),
            <<"-p", " ">> \o IntStr(mqtt_port), <<IntStr(mqtt_port) \o <<":">> \o IntStr(mqtt_port)>>, <<>>, <<>>)

\* compose_microphone .. compose_webhooks
compose_stage(i, e, command) ==
    Service(Stages[i].service,
            {"image", "command", "depends_on", "tty"} \cup (IF Stages[i].extra = "" THEN {} ELSE {Stages[i].extra}),
            <<"rhasspy", "/">> \o Head(command), <<>>, Join(Tail(command), <<" ">>), <<>>,
            IF Stages[i].extra = "devices" THEN <<<<"/", "dev", "/", "snd">>>> ELSE <<>>,
            IF Stages[i].extra = "volumes" THEN <<e.user_profiles_dir \o <<":">> \o e.user_profiles_dir>> ELSE <<>>)

\* services[name] = service: a name already held keeps its place
put_service(held, service) ==
    IF \E i \in 1..Len(held) : held[i].name = service.name
    THEN [i \in 1..Len(held) |-> IF held[i].name = service.name THEN service ELSE held[i]]
    ELSE Append(held, service)

\* the order in which yaml.safe_dump writes the keys of services
SortedNames ==
    <<"dialogue", "intent_recognition", "microphone", "mqtt", "speakers", "speech_to_text", "text_to_speech",
      "wake", "webhooks">>

RECURSIVE safe_dump(_, _)
\* yaml.safe_dump of the services: keys sorted
safe_dump(held, names) ==
    IF names = <<>> THEN <<>>
    ELSE (IF \E i \in 1..Len(held) : held[i].name = Head(names)
          THEN <<held[CHOOSE i \in 1..Len(held) : held[i].name = Head(names)]>> ELSE <<>>)
         \o safe_dump(held, Tail(names))

-----------------------------------------------------------------------------
(* The profiles and environments the program is run on *)

\* a URL: scheme, host, port and path segment by segment
Url(host, path) == <<"http", ":", "/", "/", host, ":", "8080">> \o path

\* what the command line and the machine give: --user-profiles, --profile,
\* where read_path finds files, the environment variables, the keyword
\* directories under the raven template directory, whether pico2wave is
\* installed, --local-mqtt-port, and whether the two output files exist already
Env1 ==
    [user_profiles_dir |-> <<"/", "profiles">>, name |-> W("en"), read_profiles_dir |-> <<"/", "usr", "/", "profiles">>,
     environ |-> [HOME |-> <<"/", "home">>], raven_dirs |-> <<W("hey")>>, pico2wave |-> TRUE,
     local_mqtt_port |-> 12183, old_files |-> TRUE]

Env2 ==
    [user_profiles_dir |-> <<"/", "data">>, name |-> W("de"), read_profiles_dir |-> <<"/", "data">>,
     environ |-> [HOME |-> <<"/", "root">>], raven_dirs |-> <<>>, pico2wave |-> FALSE,
     local_mqtt_port |-> 1884, old_files |-> FALSE]

\* the settings the variants require, as a profile that sets them all
Settings ==
    ("microphone.command.record_program" :> S(W("rec")))
    @@ ("sounds.command.play_program" :> S(W("play")))
    @@ ("sounds.remote.url" :> S(Url("snd", <<"/", "play">>)))
    @@ ("wake.command.program" :> S(W("wakeprog")))
    @@ ("speech_to_text.pocketsphinx.acoustic_model" :> S(W("acoustic_model")))
    @@ ("speech_to_text.pocketsphinx.dictionary" :> S(W("dictionary.txt")))
    @@ ("speech_to_text.pocketsphinx.language_model" :> S(W("language_model.txt")))
    @@ ("speech_to_text.kaldi.model_dir" :> S(W("model")))
    @@ ("speech_to_text.kaldi.graph" :> S(W("graph")))
    @@ ("speech_to_text.kaldi.model_type" :> S(W("nnet3")))
    @@ ("speech_to_text.vosk.model_dir" :> S(W("vosk")))
    @@ ("speech_to_text.command.program" :> S(W("sttprog")))
    @@ ("speech_to_text.remote.url" :> S(Url("stt", <<"/", "api">>)))
    @@ ("speech_to_text.deepspeech.acoustic_model" :> S(W("output_graph.pbmm")))
    @@ ("speech_to_text.deepspeech.language_model" :> S(W("lm.binary")))
    @@ ("speech_to_text.deepspeech.scorer" :> S(W("scorer")))
    @@ ("speech_to_text.deepspeech.alphabet" :> S(W("alphabet.txt")))
    @@ ("intent.fsticuffs.intent_graph" :> S(W("intent.pickle.gz")))
    @@ ("intent.fuzzywuzzy.examples_json" :> S(W("examples.json")))
    @@ ("intent.rasa.url" :> S(Url("rasa", <<>>)))
    @@ ("intent.command.program" :> S(W("nluprog")))
    @@ ("intent.remote.url" :> S(Url("nlu", <<>>)))
    @@ ("home_assistant.url" :> S(Url("hass", <<>>)))
    @@ ("handle.remote.url" :> S(Url("handle", <<>>)))
    @@ ("handle.command.program" :> S(<<"$", "HOME", "/", "handle">>))
    @@ ("language" :> S(W("en")))
    @@ ("text_to_speech.marytts.url" :> S(Url("mary", <<"/", "process">>)))
    @@ ("text_to_speech.wavenet.credentials_json" :> S(W("credentials.json")))
    @@ ("text_to_speech.wavenet.cache_dir" :> S(W("cache")))
    @@ ("text_to_speech.opentts.url" :> S(Url("tts", <<>>)))
    @@ ("text_to_speech.larynx.voices" :>
           Dict(<< <<W("harvard"), Dict(<< <<W("language"), S(W("en-us"))>>, <<W("tts_type"), S(W("glow_tts"))>>,
                                            <<W("tts_path"), S(W("harvard-glow_tts"))>> >>)>> >>))
    @@ ("text_to_speech.larynx.cache_dir" :> S(W("cache")))
    @@ ("text_to_speech.command.say_program" :> S(W("say")))
    @@ ("text_to_speech.remote.url" :> S(Url("tts", <<"/", "say">>)))
    @@ ("mqtt.host" :> S(W("broker")))
    @@ ("mqtt.port" :> N(1885))
    @@ ("mqtt.username" :> S(W("user")))
    @@ ("mqtt.password" :> S(<<"pass", " ", "word">>))

\* base station with the internal broker: every stage runs a variant of its own
InternalProfile ==
    ("mqtt.site_id" :> S(<<"a", ",", "b">>))
    @@ ("microphone.system" :> S(W("arecord")))
    @@ ("sounds.system" :> S(W("aplay")))
    @@ ("wake.system" :> S(W("porcupine")))
    @@ ("speech_to_text.system" :> S(W("pocketsphinx")))
    @@ ("intent.system" :> S(W("fsticuffs")))
    @@ ("handle.system" :> S(W("hass")))
    @@ ("text_to_speech.system" :> S(W("espeak")))
    @@ ("dialogue.system" :> S(W("rhasspy")))
    @@ ("webhooks" :> Dict(<< <<W("awake"), S(Url("hook", <<"/", "awake">>))>> >>))
    @@ Settings

\* satellite-aware station on an external broker with TLS
ExternalProfile ==
    ("mqtt.enabled" :> S(<<"t", "r", "u", "e">>))
    @@ ("mqtt.site_id" :> S(<<" ", "base", " ">>))
    @@ ("mqtt.tls.enabled" :> B(TRUE))
    @@ ("mqtt.tls.ca_certs" :> S(<<"/", "ca.pem">>))
    @@ ("mqtt.tls.certfile" :> S(<<"/", "my", " ", "cert.pem">>))
    @@ ("mqtt.tls.version" :> S(W("tlsv1.2")))
    @@ ("logging.format" :> S(<<"[", "level", "]">>))
    @@ ("microphone.system" :> S(W("pyaudio")))
    @@ ("sounds.system" :> S(W("command")))
    @@ ("wake.system" :> S(W("snowboy")))
    @@ ("wake.satellite_site_ids" :> S(<<"sat1", ",", " ", ",", " ", "sat2">>))
    @@ ("speech_to_text.system" :> S(W("kaldi")))
    @@ ("intent.system" :> S(W("fuzzywuzzy")))
    @@ ("handle.system" :> S(W("remote")))
    @@ ("text_to_speech.system" :> S(W("nanotts")))
    @@ ("dialogue.system" :> S(W("rhasspy")))
    @@ ("dialogue.satellite_site_ids" :> S(W("sat1")))
    @@ ("webhooks" :> Dict(<< <<W("satellite_site_ids"), S(W("sat1"))>>,
                              <<W("mqtt"), Dict(<< <<<<"hermes", "/", "intent", "/", "#">>,
                                                     Lst(<<Url("hook", <<"/", "a">>), Url("hook", <<"/", "b">>)>>)>> >>)>> >>))
    @@ Settings

\* a profile that sets nothing
EmptyProfile == [k \in {} |-> None]

\* the runs: a profile with the environment it is compiled in
Bases ==
    {[profile |-> InternalProfile, env |-> Env1], [profile |-> ExternalProfile, env |-> Env2],
     [profile |-> EmptyProfile, env |-> Env1]}

\* the known variant ids of each stage, with dummy, hermes and an unknown id
SystemIds ==
    [microphone |-> <<"arecord", "pyaudio", "command">>,
     sounds |-> <<"aplay", "command", "remote">>,
     wake |-> <<"porcupine", "snowboy", "precise", "pocketsphinx", "raven", "command">>,
     speech_to_text |-> <<"pocketsphinx", "kaldi", "vosk", "command", "remote", "deepspeech">>,
     intent |-> <<"fsticuffs", "fuzzywuzzy", "rasa", "command", "snips", "remote">>,
     handle |-> <<"hass", "remote", "command">>,
     text_to_speech |-> <<"espeak", "flite", "picotts", "nanotts", "marytts", "wavenet", "opentts", "larynx",
                          "command", "remote">>,
     dialogue |-> <<"rhasspy">>]

\* the stages that have a system key
SystemStages == {Stages[i].stage : i \in 1..Len(Stages)} \ {"webhooks"}

\* one changed setting: <<key, value>>, None for a key that is removed
SystemChanges ==
    {<<st \o ".system", S(W(id))>> :
        st \in SystemStages, id \in {"dummy", "hermes", "bogus"}}
    \cup UNION {{<<st \o ".system", S(W(SystemIds[st][i]))>> : i \in 1..Len(SystemIds[st])} : st \in SystemStages}
    \cup {<<st \o ".system", None>> : st \in SystemStages}

\* the settings whose absence makes a builder return nothing: the key, the
\* setting that when true makes the builder read another key instead, the stage
\* and variant that require it, and the other stages whose builders read it
Mandatory ==
    {[key |-> "speech_to_text.pocketsphinx.acoustic_model",
      unless |-> "", stage |-> "speech_to_text", system |-> "pocketsphinx", readers |-> {"wake"}],
     [key |-> "speech_to_text.pocketsphinx.dictionary",
      unless |-> "speech_to_text.pocketsphinx.open_transcription", stage |-> "speech_to_text", system |-> "pocketsphinx", readers |-> {"wake"}],
     [key |-> "speech_to_text.pocketsphinx.language_model",
      unless |-> "speech_to_text.pocketsphinx.open_transcription", stage |-> "speech_to_text", system |-> "pocketsphinx", readers |-> {}],
     [key |-> "intent.fsticuffs.intent_graph",
      unless |-> "", stage |-> "intent", system |-> "fsticuffs", readers |-> {"speech_to_text"}],
     [key |-> "intent.fsticuffs.intent_graph",
      unless |-> "", stage |-> "intent", system |-> "fuzzywuzzy", readers |-> {"speech_to_text"}],
     [key |-> "intent.fuzzywuzzy.examples_json",
      unless |-> "", stage |-> "intent", system |-> "fuzzywuzzy", readers |-> {}],
     [key |-> "home_assistant.url",
      unless |-> "", stage |-> "handle", system |-> "hass", readers |-> {}],
     [key |-> "handle.remote.url",
      unless |-> "", stage |-> "handle", system |-> "remote", readers |-> {}],
     [key |-> "speech_to_text.kaldi.model_dir",
      unless |-> "", stage |-> "speech_to_text", system |-> "kaldi", readers |-> {}],
     [key |-> "speech_to_text.kaldi.graph",
      unless |-> "speech_to_text.kaldi.open_transcription", stage |-> "speech_to_text", system |-> "kaldi", readers |-> {}],
     [key |-> "speech_to_text.kaldi.model_type",
      unless |-> "", stage |-> "speech_to_text", system |-> "kaldi", readers |-> {}],
     [key |-> "sounds.command.play_program",
      unless |-> "", stage |-> "sounds", system |-> "command", readers |-> {}],
     [key |-> "microphone.command.record_program",
      unless |-> "", stage |-> "microphone", system |-> "command", readers |-> {}],
     [key |-> "wake.command.program",
      unless |-> "", stage |-> "wake", system |-> "command", readers |-> {}],
     [key |-> "text_to_speech.remote.url",
      unless |-> "", stage |-> "text_to_speech", system |-> "remote", readers |-> {}]}

MandatoryKeys == {r.key : r \in Mandatory}

\* the values a boolean setting is given in a profile
BoolValues ==
    {B(TRUE), B(FALSE), S(<<"t", "r", "u", "e">>), S(<<"T", "r", "u", "e">>), S(<<"T", "R", "U", "E">>), S(<<"f", "a", "l", "s", "e">>)}

\* the settings the builders read as booleans
BoolKeys ==
    {"mqtt.enabled", "mqtt.tls.enabled", "speech_to_text.pocketsphinx.open_transcription",
     "speech_to_text.kaldi.allow_unknown_words", "intent.replace_numbers", "wake.snowboy.apply_frontend"}

OtherChanges ==
    {<<"mqtt.port", S(W("1886"))>>, <<"mqtt.port", S(W("none"))>>,
     <<"mqtt.site_id", S(<<" ", "a", " ", ",", ",", "b", " ", "c">>)>>, <<"mqtt.site_id", None>>,
     <<"microphone.satellite_site_ids", S(<<"s1", ",", "s2">>)>>,
     <<"mqtt.username", S(<<" ">>)>>, <<"webhooks", None>>,
     <<"speech_to_text.pocketsphinx.base_dictionary", S(W("base.txt"))>>,
     <<"speech_to_text.pocketsphinx.base_language_model", S(W("base_lm.txt"))>>,
     <<"wake.lang", S(<<"en", " ", "US">>)>>}

Changes ==
    SystemChanges \cup {<<k, None>> : k \in MandatoryKeys} \cup (BoolKeys \X BoolValues) \cup OtherChanges

\* how many settings a run changes in its base profile
MaxDeviations == 1

\* p with one setting changed
Change(p, c) ==
    IF c[2] = None THEN [k \in DOMAIN p \ {c[1]} |-> p[k]]
    ELSE [k \in DOMAIN p \cup {c[1]} |-> IF k = c[1] THEN c[2] ELSE p[k]]

\* the changes made on top of a first one: a mandatory setting removed, an
\* unknown variant id, the broker switched
FurtherChanges ==
    {<<k, None>> : k \in MandatoryKeys}
    \cup {<<st \o ".system", S(W("bogus"))>> : st \in SystemStages}
    \cup {<<"mqtt.enabled", B(TRUE)>>, <<"mqtt.tls.enabled", S(<<"f", "a", "l", "s", "e">>)>>}

RECURSIVE Deviate(_, _)
\* the profiles within n changed settings of those in ps: any first change,
\* then further ones
Deviate(ps, n) ==
    IF n = 0 THEN ps
    ELSE Deviate(ps \cup {Change(p, c) : p \in ps, c \in IF n = MaxDeviations THEN Changes ELSE FurtherChanges},
                 n - 1)

-----------------------------------------------------------------------------
(* main: the supervisord conf, then the compose file *)

\* no broker settings computed yet
NoMqtt == [mqtt_host |-> <<>>, mqtt_port |-> 0, mqtt_username |-> <<>>, mqtt_password |-> <<>>]

\* the output files before the run
OldConf(e) == IF e.old_files THEN [exists |-> TRUE, lines |-> <<W("old")>>] ELSE [exists |-> FALSE, lines |-> <<>>]

OldYml(e) ==
    IF e.old_files THEN [exists |-> TRUE, content |-> "old", services |-> <<>>]
    ELSE [exists |-> FALSE, content |-> "none", services |-> <<>>]

Init ==
    /\ \E base \in Bases :
          /\ env = base.env
          /\ profile \in Deviate({base.profile}, MaxDeviations)
    /\ pc = "start"
    /\ loc = [i |-> 0, m |-> NoMqtt, error |-> ""]
    /\ conf_file = OldConf(env)
    /\ yml_file = OldYml(env)
    /\ services = <<>>
    /\ invoked = <<>>
    /\ std_in = NoMqtt
    /\ std_out = <<>>

\* open(supervisord_conf_path, "w"): the file is created or emptied
main_open_conf ==
    /\ pc = "start"
    /\ conf_file' = [exists |-> TRUE, lines |-> <<>>]
    /\ pc' = "conf_header"
    /\ UNCHANGED <<profile, env, loc, yml_file, services, invoked, std_in, std_out>>

\* profile_to_conf up to the broker: the header, the broker settings and,
\* with the internal broker, the mqtt stanza
profile_to_conf_mqtt ==
    /\ pc = "conf_header"
    /\ loc' = [loc EXCEPT !.m = mqtt_settings(profile, env, "localhost"), !.i = 1]
    /\ conf_file' = [conf_file EXCEPT !.lines =
                        @ \o conf_header
                          \o (IF remote_mqtt(profile) THEN <<>> ELSE print_mqtt(env.local_mqtt_port, W("mosquitto")))]
    /\ pc' = "conf_stage"
    /\ UNCHANGED <<profile, env, yml_file, services, invoked, std_in, std_out>>

\* one stage block of profile_to_conf: skipped when disabled, else the builder
\* runs and its stanza is printed; an exception leaves main
profile_to_conf_stage ==
    /\ pc = "conf_stage"
    /\ loc.i <= Len(Stages)
    /\ LET stage == Stages[loc.i].stage
           built == get_command(stage, profile, env, loc.m)
       IN  IF ~enabled(profile, stage)
           THEN /\ loc' = [loc EXCEPT !.i = @ + 1]
                /\ UNCHANGED <<profile, pc, conf_file, invoked>>
           ELSE /\ invoked' = Append(invoked, <<"conf", stage>>)
                /\ profile' = profile_after(stage, profile, env)
                /\ IF built.raised
                   THEN /\ pc' = "failed"
                        /\ loc' = [loc EXCEPT !.error = built.error]
                        /\ UNCHANGED conf_file
                   ELSE /\ conf_file' = [conf_file EXCEPT !.lines = @ \o print_stage(Stages[loc.i].program, built.cmd)]
                        /\ loc' = [loc EXCEPT !.i = @ + 1]
                        /\ UNCHANGED pc
    /\ UNCHANGED <<env, yml_file, services, std_in, std_out>>

\* profile_to_conf returns and the conf file is closed
main_close_conf ==
    /\ pc = "conf_stage"
    /\ loc.i > Len(Stages)
    /\ pc' = "docker_open"
    /\ UNCHANGED <<profile, env, loc, conf_file, yml_file, services, invoked, std_in, std_out>>

\* open(docker_compose_path, "w"): the file is created or emptied
main_open_yml ==
    /\ pc = "docker_open"
    /\ yml_file' = [exists |-> TRUE, content |-> "empty", services |-> <<>>]
    /\ pc' = "docker_mqtt"
    /\ UNCHANGED <<profile, env, loc, conf_file, services, invoked, std_in, std_out>>

\* profile_to_docker up to the broker: int(mqtt.port) is not guarded here
profile_to_docker_mqtt ==
    /\ pc = "docker_mqtt"
    /\ IF mqtt_port_raises(profile)
       THEN /\ pc' = "failed"
            /\ loc' = [loc EXCEPT !.error = "ValueError"]
            /\ UNCHANGED services
       ELSE /\ pc' = "docker_stage"
            /\ loc' = [loc EXCEPT !.m = mqtt_settings(profile, env, "mqtt"), !.i = 1]
            /\ services' = IF remote_mqtt(profile) THEN <<>> ELSE <<compose_mqtt(env.local_mqtt_port)>>
    /\ UNCHANGED <<profile, env, conf_file, yml_file, invoked, std_in, std_out>>

\* one stage block of profile_to_docker; a stage without a compose service has no block
profile_to_docker_stage ==
    /\ pc = "docker_stage"
    /\ loc.i <= Len(Stages)
    /\ LET stage == Stages[loc.i].stage
           built == get_command(stage, profile, env, loc.m)
       IN  IF loc.i \notin DockerStages \/ ~enabled(profile, stage)
           THEN /\ loc' = [loc EXCEPT !.i = @ + 1]
                /\ UNCHANGED <<profile, pc, services, invoked>>
           ELSE /\ invoked' = Append(invoked, <<"docker", stage>>)
                /\ profile' = profile_after(stage, profile, env)
                /\ IF built.raised
                   THEN /\ pc' = "failed"
                        /\ loc' = [loc EXCEPT !.error = built.error]
                        /\ UNCHANGED services
                   ELSE /\ services' = IF built.cmd = <<>> THEN services
                                       ELSE put_service(services, compose_stage(loc.i, env, built.cmd))
                        /\ loc' = [loc EXCEPT !.i = @ + 1]
                        /\ UNCHANGED pc
    /\ UNCHANGED <<env, conf_file, yml_file, std_in, std_out>>

\* yaml.safe_dump: the compose file gets its content only here
profile_to_docker_dump ==
    /\ pc = "docker_stage"
    /\ loc.i > Len(Stages)
    /\ yml_file' = [exists |-> TRUE, content |-> "yaml", services |-> safe_dump(services, SortedNames)]
    /\ pc' = "done"
    /\ UNCHANGED <<profile, env, loc, conf_file, services, invoked, std_in, std_out>>

Next ==
    \/ main_open_conf
    \/ profile_to_conf_mqtt
    \/ profile_to_conf_stage
    \/ main_close_conf
    \/ main_open_yml
    \/ profile_to_docker_mqtt
    \/ profile_to_docker_stage
    \/ profile_to_docker_dump

Spec == Init /\ [][Next]_vars

-----------------------------------------------------------------------------
(* add_standard_args on its own *)

\* master and satellite site id settings
SiteIdSettings ==
    {<<"a", ",", "b">>, <<>>, <<" ", "a", " ">>, <<"a", ",", " ", ",", "b">>, <<",">>, <<"a", " ", "b">>, <<"b", ",", "a">>}

\* broker users and passwords
Credentials == {<<>>, W("user"), <<"us", " ", "er">>}

\* the TLS sub-settings, in no particular order
TlsKeys ==
    {"mqtt.tls.version", "mqtt.tls.keyfile", "mqtt.tls.ca_certs", "mqtt.tls.ciphers", "mqtt.tls.cert_reqs",
     "mqtt.tls.certfile"}

\* profiles that differ in the settings add_standard_args reads
StdProfiles ==
    {("mqtt.site_id" :> S(master)) @@ ("wake.satellite_site_ids" :> S(satellites))
     @@ ("mqtt.tls.enabled" :> tls) @@ ("logging.format" :> S(format))
     @@ [k \in (IF all THEN TlsKeys ELSE {one, blank}) |-> IF k = blank THEN S(<<>>) ELSE S(<<"/", k>>)] :
        master \in SiteIdSettings, satellites \in {<<>>, <<"s1", ",", " ", "s2">>},
        tls \in {B(TRUE), B(FALSE)}, format \in {<<>>, W("fmt")}, all \in BOOLEAN, one \in TlsKeys,
        blank \in TlsKeys}

InitStd ==
    /\ profile \in StdProfiles
    /\ \E username \in Credentials, password \in Credentials, port \in {1883, 12183} :
          std_in = [mqtt_host |-> W("localhost"), mqtt_port |-> port,
                    mqtt_username |-> username, mqtt_password |-> password]
    /\ env = Env1
    /\ pc = "std"
    /\ loc = [i |-> 0, m |-> NoMqtt, error |-> ""]
    /\ conf_file = OldConf(env)
    /\ yml_file = OldYml(env)
    /\ services = <<>>
    /\ invoked = <<>>
    /\ std_out = <<>>

\* a builder's call: add_standard_args on a one-word command with the wake word site ids
call_add_standard_args ==
    /\ pc = "std"
    /\ std_out' = Std(profile, <<W("service")>>, stage_site_ids(profile, "wake"), std_in)
    /\ pc' = "std_done"
    /\ UNCHANGED <<profile, env, loc, conf_file, yml_file, services, invoked, std_in>>

NextStd == call_add_standard_args

SpecStd == InitStd /\ [][NextStd]_vars

-----------------------------------------------------------------------------
(* add_udp_audio_settings on its own *)

\* how many tuples a udp_audio setting lists
MaxTuples == 2

\* one tuple of a udp_audio setting: port, host:port, host:port:siteId, and
\* tuples with a port that is no integer, no field at all, or a fourth field
UdpTuples ==
    {<<"5", "0", "0", "0">>, <<" ", "9">>, <<"h", ":", "6", "0">>, <<"my", " ", "host", ":", "6", "1">>,
     <<"h", ":", "6", "2", ":", "s1">>, <<"h", ":", "x">>, <<>>, <<"h", ":", "7", ":", "s1", ":", "z">>}

\* the udp_audio settings of up to MaxTuples tuples
UdpSettings == {Join(l, <<",">>) : l \in UNION {[1..k -> UdpTuples] : k \in 1..MaxTuples}}

\* mqtt.site_id settings: plain, with a space, to be stripped, with a blank first entry, blank
UdpSiteIds ==
    {<<"a", ",", "b">>, <<"my", " ", "site">>, <<" ", "a", " ", ",", "b">>, <<",", "b">>, <<" ">>}

\* udp_site_info maps: one site with raw audio, two sites with both flags among them
UdpSiteInfos ==
    {Dict(<< <<W("s1"), Dict(<< <<W("raw_audio"), B(TRUE)>> >>)>> >>),
     Dict(<< <<W("s1"), Dict(<< <<W("raw_audio"), B(TRUE)>>, <<W("forward_to_mqtt"), B(TRUE)>> >>)>>,
             <<W("s2"), Dict(<< <<W("raw_audio"), B(FALSE)>>, <<W("forward_to_mqtt"), B(TRUE)>> >>)>> >>)}

\* profiles that differ in what the udp_audio block of the wake builder reads
UdpProfiles ==
    {("wake.system" :> S(W("porcupine"))) @@ ("wake.porcupine.udp_audio" :> S(audio)) @@ ("mqtt.site_id" :> S(site)) @@ info :
        audio \in UdpSettings, site \in UdpSiteIds,
        info \in {[k \in {} |-> None]} \cup {("wake.porcupine.udp_site_info" :> i) : i \in UdpSiteInfos}}

InitUdp ==
    /\ profile \in UdpProfiles
    /\ env = Env1
    /\ pc = "udp"
    /\ loc = [i |-> 0, m |-> NoMqtt, error |-> ""]
    /\ conf_file = OldConf(env)
    /\ yml_file = OldYml(env)
    /\ services = <<>>
    /\ invoked = <<>>
    /\ std_in = mqtt_settings(profile, env, "localhost")
    /\ std_out = <<>>

\* get_wake called for the porcupine variant as profile_to_conf calls it: the
\* command ends with what add_udp_audio_settings appends, the first site id
\* being the default site id
call_add_udp_audio_settings ==
    /\ pc = "udp"
    /\ LET built == get_command("wake", profile, env, std_in)
       IN  /\ std_out' = built.cmd
           /\ loc' = [loc EXCEPT !.error = built.error]
           /\ pc' = IF built.raised THEN "failed" ELSE "udp_done"
    /\ UNCHANGED <<profile, env, conf_file, yml_file, services, invoked, std_in>>

NextUdp == call_add_udp_audio_settings

SpecUdp == InitUdp /\ [][NextUdp]_vars

-----------------------------------------------------------------------------
(* get_wake on its own: the snowboy variant *)

\* how many models wake.snowboy.model lists
MaxModels == 2

\* model names, one of them with a space
ModelNames == {W("m1.umdl"), W("m2.pmdl"), <<"my", " ", "model">>}

\* the wake.snowboy.model settings of up to MaxModels names
ModelLists == {Join(l, <<",">>) : l \in UNION {[1..k -> ModelNames] : k \in 1..MaxModels}}

\* wake.snowboy.model_settings: nothing for a model, some of its values, all of them
ModelSettings ==
    {Dict(<< <<W("m1.umdl"), Dict(<< <<W("sensitivity"), S(W("0.8"))>> >>)>> >>),
     Dict(<< <<W("m1.umdl"), Dict(<< <<W("sensitivity"), S(W("0.8"))>>, <<W("audio_gain"), F(W("2.5"))>>,
                                     <<W("apply_frontend"), B(TRUE)>> >>)>>,
             <<<<"my", " ", "model">>, Dict(<< <<W("audio_gain"), N(3)>> >>)>> >>)}

\* snowboy profiles that differ in the model list, the per-model settings and
\* the stage-wide defaults
SnowboyProfiles ==
    {("wake.system" :> S(W("snowboy"))) @@ ("mqtt.site_id" :> S(W("base")))
     @@ [k \in {"wake.snowboy.model"} \cap (IF listed THEN {"wake.snowboy.model"} ELSE {}) |-> S(models)]
     @@ [k \in {"wake.snowboy.model_settings"} \cap (IF per_model THEN {"wake.snowboy.model_settings"} ELSE {}) |-> settings]
     @@ [k \in stage_wide |->
            CASE k = "wake.snowboy.sensitivity" -> S(W("0.6"))
              [] k = "wake.snowboy.audio_gain" -> S(W("2"))
              [] OTHER -> B(TRUE)] :
        listed \in BOOLEAN, models \in ModelLists, per_model \in BOOLEAN, settings \in ModelSettings,
        stage_wide \in SUBSET {"wake.snowboy.sensitivity", "wake.snowboy.audio_gain", "wake.snowboy.apply_frontend"}}

InitWake ==
    /\ profile \in SnowboyProfiles
    /\ env \in {Env1, Env2}
    /\ pc = "wake"
    /\ loc = [i |-> 0, m |-> NoMqtt, error |-> ""]
    /\ conf_file = OldConf(env)
    /\ yml_file = OldYml(env)
    /\ services = <<>>
    /\ invoked = <<>>
    /\ std_in = mqtt_settings(profile, env, "localhost")
    /\ std_out = <<>>

\* get_wake called as profile_to_conf calls it: the command it returns and what
\* it leaves in the profile
call_get_wake ==
    /\ pc = "wake"
    /\ LET built == get_command("wake", profile, env, std_in)
       IN  /\ std_out' = built.cmd
           /\ loc' = [loc EXCEPT !.error = built.error]
           /\ pc' = IF built.raised THEN "failed" ELSE "wake_done"
    /\ profile' = profile_after("wake", profile, env)
    /\ UNCHANGED <<env, conf_file, yml_file, services, invoked, std_in>>

NextWake == call_get_wake

SpecWake == InitWake /\ [][NextWake]_vars

-----------------------------------------------------------------------------
(* get_wake on its own: the UDP audio block of each variant *)

\* the wake variants that take UDP audio
UdpVariants == {"porcupine", "snowboy", "precise", "pocketsphinx", "raven"}

\* the udp_site_info of a variant: one site, named after the variant, with both flags
VariantSiteInfo(variant) ==
    Dict(<< <<W(variant), Dict(<< <<W("raw_audio"), B(TRUE)>>, <<W("forward_to_mqtt"), B(TRUE)>> >>)>> >>)

\* profiles of one selected variant with UDP audio, in which any of the
\* variants has a udp_site_info
InfoProfiles ==
    {("wake.system" :> S(W(selected))) @@ ("wake." \o selected \o ".udp_audio" :> S(audio))
     @@ [k \in {"wake." \o v \o ".udp_site_info" : v \in informed} |->
            VariantSiteInfo(CHOOSE v \in informed : k = "wake." \o v \o ".udp_site_info")]
     @@ Settings :
        selected \in UdpVariants, audio \in {<<"5", "0", "0", "0">>, <<"h", ":", "6", "0", ":", "s9">>}, informed \in SUBSET UdpVariants}

InitInfo ==
    /\ profile \in InfoProfiles
    /\ env \in {Env1, Env2}
    /\ pc = "wake"
    /\ loc = [i |-> 0, m |-> NoMqtt, error |-> ""]
    /\ conf_file = OldConf(env)
    /\ yml_file = OldYml(env)
    /\ services = <<>>
    /\ invoked = <<>>
    /\ std_in = mqtt_settings(profile, env, "localhost")
    /\ std_out = <<>>

SpecInfo == InitInfo /\ [][NextWake]_vars

-----------------------------------------------------------------------------
(* get_text_to_speech on its own: the nanotts variant *)

\* nanotts profiles: the language, the language directory, the locale, the
\* volume and the site ids each set or unset
NanottsProfiles ==
    {("text_to_speech.system" :> S(W("nanotts")))
     @@ [k \in given |->
            CASE k = "text_to_speech.nanotts.language" -> S(W("en-GB"))
              [] k = "text_to_speech.nanotts.langdir" -> S(<<"/", "lang", " ", "dir">>)
              [] k = "text_to_speech.nanotts.volume" -> S(W("0.7"))
              [] k = "mqtt.site_id" -> S(<<"a", ",", "b">>)
              [] OTHER -> locale] :
        given \in SUBSET {"text_to_speech.nanotts.language", "text_to_speech.nanotts.langdir",
                          "text_to_speech.nanotts.volume", "mqtt.site_id", "locale"},
        locale \in {S(W("en_US")), S(<<" ">>)}}

InitTts ==
    /\ profile \in NanottsProfiles
    /\ env \in {Env1, Env2}
    /\ pc = "tts"
    /\ loc = [i |-> 0, m |-> NoMqtt, error |-> ""]
    /\ conf_file = OldConf(env)
    /\ yml_file = OldYml(env)
    /\ services = <<>>
    /\ invoked = <<>>
    /\ std_in = mqtt_settings(profile, env, "localhost")
    /\ std_out = <<>>

\* get_text_to_speech called as profile_to_conf calls it
call_get_text_to_speech ==
    /\ pc = "tts"
    /\ LET built == get_command("text_to_speech", profile, env, std_in)
       IN  /\ std_out' = built.cmd
           /\ loc' = [loc EXCEPT !.error = built.error]
           /\ pc' = IF built.raised THEN "failed" ELSE "tts_done"
    /\ UNCHANGED <<profile, env, conf_file, yml_file, services, invoked, std_in>>

NextTts == call_get_text_to_speech

SpecTts == InitTts /\ [][NextTts]_vars

-----------------------------------------------------------------------------
(* One Profile object compiled twice *)

\* wake.raven.keywords: one detected keyword switched off, one undetected keyword, none
RavenKeywords ==
    {Dict(<< <<W("hey"), Dict(<< <<W("enabled"), B(FALSE)>> >>)>> >>),
     Dict(<< <<W("okay"), Dict(<< <<W("enabled"), B(TRUE)>>, <<W("probability"), F(W("0.4"))>> >>)>> >>),
     Dict(<<>>)}

\* the wake settings of the snowboy and raven variants
WakeSettings ==
    {("wake.system" :> S(W("snowboy"))) @@ ("wake.snowboy.model" :> S(models))
     @@ [k \in {"wake.snowboy.model_settings"} \cap (IF per_model THEN {"wake.snowboy.model_settings"} ELSE {}) |-> settings] :
        models \in ModelLists, per_model \in BOOLEAN, settings \in ModelSettings}
    \cup
    {("wake.system" :> S(W("raven")))
     @@ [k \in {"wake.raven.keywords"} \cap (IF given THEN {"wake.raven.keywords"} ELSE {}) |-> keywords] :
        given \in BOOLEAN, keywords \in RavenKeywords}

InitTwice ==
    /\ \E base \in {InternalProfile, ExternalProfile}, wake \in WakeSettings : profile = wake @@ base
    /\ env \in {Env1, Env2}
    /\ pc = "start"
    /\ loc = [i |-> 0, m |-> NoMqtt, error |-> ""]
    /\ conf_file = OldConf(env)
    /\ yml_file = OldYml(env)
    /\ services = <<>>
    /\ invoked = <<>>
    /\ std_in = NoMqtt
    /\ std_out = <<>>

\* the same Profile object is compiled once more: the supervisor output of the
\* first run is kept aside and the conf file is opened again
main_again ==
    /\ pc = "done"
    /\ std_out = <<>>
    /\ std_out' = conf_file.lines
    /\ conf_file' = [exists |-> TRUE, lines |-> <<>>]
    /\ pc' = "conf_header"
    /\ UNCHANGED <<profile, env, loc, yml_file, services, invoked, std_in>>

NextTwice == Next \/ main_again

SpecTwice == InitTwice /\ [][NextTwice]_vars

-----------------------------------------------------------------------------
(* Reading the outputs *)

\* the first line of a program's stanza
ProgramHeader(program) == <<"[program:", program, "]">>

\* the lines of the conf file that open a stanza
Headers(lines) == {i \in 1..Len(lines) : Len(lines[i]) = 3 /\ lines[i][1] = "[program:"}

\* the lines that open the stanza of a stage
StageHeaders(lines) == {i \in Headers(lines) : lines[i] # ProgramHeader("mqtt")}

\* whether the conf file holds a stanza of the program
HasProgram(lines, program) == \E i \in Headers(lines) : lines[i] = ProgramHeader(program)

\* the stanza of a program as it stands in the conf file: seven lines, or nothing
StanzaOf(lines, program) ==
    IF HasProgram(lines, program)
    THEN LET h == CHOOSE i \in Headers(lines) : lines[i] = ProgramHeader(program)
         IN  SubSeq(lines, h, h + 6)
    ELSE <<>>

\* the command line of a program's stanza, or nothing
CommandOf(lines, program) ==
    IF HasProgram(lines, program) THEN StanzaOf(lines, program)[2] ELSE <<>>

\* whether a word stands in a command line
HasWord(line, word) == \E i \in 1..Len(line) : line[i] = word

\* whether every --host in the line is followed by the host and the port, and there is one
BrokerIs(line, host, port) ==
    /\ HasWord(line, "--host")
    /\ \A i \in 1..Len(line) :
          line[i] = "--host" =>
             LET want == <<"--host", " ", host, " ", "--port", " ">> \o IntStr(port)
                 last == i + Len(want) - 1
             IN  /\ last <= Len(line)
                 /\ SubSeq(line, i, last) = want
                 /\ (last < Len(line) => line[last + 1] = " ")

\* whether a compose service of that name is held
HasService(held, name) == \E i \in 1..Len(held) : held[i].name = name

\* the position of a name in an order, 0 when it is not in it
Position(order, name) ==
    IF \E i \in 1..Len(order) : order[i] = name THEN CHOOSE i \in 1..Len(order) : order[i] = name ELSE 0

\* whether the stanzas of the file and the builder calls follow the order
FollowsOrder(programs, stages) ==
    /\ \A i, j \in StageHeaders(conf_file.lines) :
          i < j => Position(programs, conf_file.lines[i][2]) < Position(programs, conf_file.lines[j][2])
    /\ \A i, j \in 1..Len(invoked) :
          (i < j /\ invoked[i][1] = invoked[j][1]) => Position(stages, invoked[i][2]) < Position(stages, invoked[j][2])

\* the stage ids of the profile that are neither dummy, hermes nor known
Unknown(i) ==
    /\ Stages[i].stage \in SystemStages
    /\ enabled(profile, Stages[i].stage)
    /\ \A k \in 1..Len(SystemIds[Stages[i].stage]) :
          system_of(profile, Stages[i].stage) # S(W(SystemIds[Stages[i].stage][k]))

-----------------------------------------------------------------------------
(* The claims on main, profile_to_conf and profile_to_docker *)

\* C1 (as the specification states it): when a run aborts, neither output
\* file has been created or modified, and the conf file holds no header and
\* no stanza.
C1_NothingWritten == pc = "failed" => (conf_file = OldConf(env) /\ yml_file = OldYml(env))

\* C2: once the builder of a stage with an unknown variant id has been
\* called, the run has failed with the builder's ValueError, that call is the
\* last builder call, and no later stage is ever processed.
C2_UnknownRaises ==
    \A i \in 1..Len(Stages) :
       Unknown(i) =>
          /\ pc \notin {"docker_open", "docker_mqtt", "docker_stage", "done"}
          /\ (pc = "conf_stage" => loc.i <= i)
          /\ (\E k \in 1..Len(invoked) : invoked[k] = <<"conf", Stages[i].stage>>) =>
                /\ pc = "failed"
                /\ loc.error = "ValueError"
                /\ invoked[Len(invoked)] = <<"conf", Stages[i].stage>>
                /\ loc.i = i

\* C2 witness: the dialogue stage has an unknown id, earlier stages were
\* built and printed, and the run has failed in the dialogue builder.
C2_Witness ==
    /\ pc = "failed"
    /\ system_of(profile, "dialogue") = S(W("bogus"))
    /\ Len(invoked) > 2
    /\ invoked[Len(invoked)] = <<"conf", "dialogue">>
    /\ HasProgram(conf_file.lines, "text_to_speech")

\* C3: a selectable stage whose system is dummy, hermes or unset never has
\* its builder called, has no stanza and no compose service, and is never
\* the stage a run fails in.
C3_Disabled ==
    \A i \in 1..Len(Stages) :
       (Stages[i].stage \in SystemStages
        /\ system_of(profile, Stages[i].stage) \in {S(W("dummy")), S(W("hermes"))}) =>
          /\ \A k \in 1..Len(invoked) : invoked[k][2] # Stages[i].stage
          /\ ~HasProgram(conf_file.lines, Stages[i].program)
          /\ ~HasService(services, Stages[i].service)
          /\ ~HasService(yml_file.services, Stages[i].service)
          /\ (pc = "failed" => loc.i # i)

\* C3 witness: a finished run in which the speech to text stage is hermes,
\* with the settings of its variants in place, and the stages around it were
\* emitted.
C3_Witness ==
    /\ pc = "done"
    /\ system_of(profile, "speech_to_text") = S(W("hermes"))
    /\ "speech_to_text.pocketsphinx.acoustic_model" \in DOMAIN profile
    /\ "speech_to_text.kaldi.model_dir" \in DOMAIN profile
    /\ HasProgram(conf_file.lines, "wake_word")
    /\ HasProgram(conf_file.lines, "intent_recognition")
    /\ HasService(yml_file.services, "dialogue")

\* whether the row's setting is missing for the variant the profile selects
Lacks(r) ==
    /\ system_of(profile, r.stage) = S(W(r.system))
    /\ ~Truthy(Get(profile, r.key, None))
    /\ (r.unless = "" \/ ~Truthy(Get(profile, r.unless, B(FALSE))))

\* the stage is dropped and the run goes on
Dropped(r) ==
    LET i == CHOOSE k \in 1..Len(Stages) : Stages[k].stage = r.stage
        built == get_command(r.stage, profile, env, mqtt_settings(profile, env, "localhost"))
    IN  /\ ~built.raised /\ built.cmd = <<>>
        /\ ~HasProgram(conf_file.lines, Stages[i].program)
        /\ ~HasService(services, Stages[i].service)
        /\ ~HasService(yml_file.services, Stages[i].service)
        /\ (pc = "failed" => loc.i # i)
        /\ ((pc = "conf_stage" /\ loc.i > i) => \E k \in 1..Len(invoked) : invoked[k] = <<"conf", r.stage>>)

\* the stanzas of the other stages, bar the excepted ones, are those of the
\* profile with the setting present
OthersAsWith(r, excepted) ==
    LET with == [k \in DOMAIN profile \cup {r.key} |-> IF k = r.key THEN Settings[r.key] ELSE profile[k]]
    IN  \A j \in 1..Len(Stages) :
           (Stages[j].stage # r.stage /\ Stages[j].stage \notin excepted /\ enabled(with, Stages[j].stage)) =>
              LET built == get_command(Stages[j].stage, with, env, mqtt_settings(with, env, "localhost"))
              IN  built.raised \/ StanzaOf(conf_file.lines, Stages[j].program) = print_stage(Stages[j].program, built.cmd)

InternalBroker(conf_host, compose_host) ==
    ~remote_mqtt(profile) =>
       /\ \A i \in StageHeaders(conf_file.lines) :
             /\ BrokerIs(conf_file.lines[i + 1], conf_host, env.local_mqtt_port)
             /\ ~HasWord(conf_file.lines[i + 1], "--username")
             /\ ~HasWord(conf_file.lines[i + 1], "--password")
       /\ \A held \in {services, yml_file.services} :
             \A i \in 1..Len(held) :
                held[i].name # "mqtt" =>
                   /\ BrokerIs(held[i].command, compose_host, env.local_mqtt_port)
                   /\ ~HasWord(held[i].command, "--username")
                   /\ ~HasWord(held[i].command, "--password")

C6_BrokerStanza ==
    pc \notin {"start", "conf_header"} =>
       LET lines == conf_file.lines
           four == <<W("stopasgroup=true"), <<"stdout_logfile=", "/", "dev", "/", "stdout">>,
                     W("stdout_logfile_maxbytes=0"), W("redirect_stderr=true")>>
       IN  /\ HasProgram(lines, "mqtt") <=> ~remote_mqtt(profile)
           /\ \A i \in Headers(lines) :
                 LET last == IF lines[i] = ProgramHeader("mqtt") THEN i + 2 ELSE i + 1
                 IN  /\ lines[i] = ProgramHeader("mqtt") =>
                           (lines[i + 2] = W("priority=0") /\ \A j \in Headers(lines) : i <= j)
                     /\ last + 4 <= Len(lines)
                     /\ SubSeq(lines, last + 1, last + 4) = four
           /\ \A k \in 1..Len(lines) :
                 lines[k] = W("priority=0") => (k > 2 /\ lines[k - 2] = ProgramHeader("mqtt"))

\* C6 witness: a complete conf file with the mqtt stanza and stage stanzas.
C6_Witness ==
    /\ pc = "docker_open"
    /\ HasProgram(conf_file.lines, "mqtt")
    /\ HasProgram(conf_file.lines, "microphone")
    /\ HasProgram(conf_file.lines, "webhooks")

\* C7 (as the specification states it): stanzas and builder calls come in
\* the order microphone, wake word, speech to text, intent recognition,
\* intent handling, dialogue, text to speech, speakers, webhooks.
C7_StatedOrder ==
    FollowsOrder(<<"microphone", "wake_word", "speech_to_text", "intent_recognition", "intent_handling",
                   "dialogue", "text_to_speech", "speakers", "webhooks">>,
                 <<"microphone", "wake", "speech_to_text", "intent", "handle", "dialogue", "text_to_speech",
                   "sounds", "webhooks">>)

\* C7 (amended): stanzas and builder calls come in the order microphone,
\* speakers, wake word, speech to text, intent recognition, intent handling,
\* text to speech, dialogue, webhooks; a stage left out never reorders the rest.
C7_CodeOrder ==
    FollowsOrder(<<"microphone", "speakers", "wake_word", "speech_to_text", "intent_recognition",
                   "intent_handling", "text_to_speech", "dialogue", "webhooks">>,
                 <<"microphone", "sounds", "wake", "speech_to_text", "intent", "handle", "text_to_speech",
                   "dialogue", "webhooks">>)

\* C7 witness: a complete conf file holding the stanzas of all nine stages.
C7_Witness ==
    /\ pc = "docker_open"
    /\ Cardinality(StageHeaders(conf_file.lines)) = 9
    /\ Len(invoked) = 9

\* the boolean reading the specification gives for every setting
ReadsTrue(v) == v = B(TRUE) \/ v \in {S(<<"t", "r", "u", "e">>), S(<<"T", "r", "u", "e">>), S(<<"T", "R", "U", "E">>)}

\* whether the line ends with the words
EndsWithWords(line, words) ==
    Len(line) >= Len(words) /\ SubSeq(line, Len(line) - Len(words) + 1, Len(line)) = words

\* C10 (as the specification states it): every boolean setting that is set
\* takes effect in the conf file exactly when it is true, "true", "True" or
\* "TRUE".
C10_OneRule ==
    pc = "docker_open" =>
       LET lines == conf_file.lines
           set(key) == key \in DOMAIN profile
           stt == CommandOf(lines, "speech_to_text")
           wake == CommandOf(lines, "wake_word")
           intent == CommandOf(lines, "intent_recognition")
       IN  /\ set("mqtt.enabled") => (~HasProgram(lines, "mqtt") <=> ReadsTrue(profile["mqtt.enabled"]))
           /\ set("mqtt.tls.enabled") =>
                 \A i \in StageHeaders(lines) : HasWord(lines[i + 1], "--tls") <=> ReadsTrue(profile["mqtt.tls.enabled"])
           /\ (set("speech_to_text.pocketsphinx.open_transcription") /\ stt # <<>>
               /\ system_of(profile, "speech_to_text") = S(W("pocketsphinx"))) =>
                 (HasWord(stt, "--no-overwrite-train") <=> ReadsTrue(profile["speech_to_text.pocketsphinx.open_transcription"]))
           /\ (set("speech_to_text.kaldi.allow_unknown_words") /\ stt # <<>>
               /\ system_of(profile, "speech_to_text") = S(W("kaldi"))) =>
                 (HasWord(stt, "--allow-unknown-words") <=> ReadsTrue(profile["speech_to_text.kaldi.allow_unknown_words"]))
           /\ (set("intent.replace_numbers") /\ intent # <<>>
               /\ system_of(profile, "intent") \in {S(W("fsticuffs")), S(W("fuzzywuzzy"))}) =>
                 (HasWord(intent, "--replace-numbers") <=> ReadsTrue(profile["intent.replace_numbers"]))
           /\ (set("wake.snowboy.apply_frontend") /\ wake # <<>> /\ system_of(profile, "wake") = S(W("snowboy"))) =>
                 (EndsWithWords(wake, <<"T", "r", "u", "e">>) <=> ReadsTrue(profile["wake.snowboy.apply_frontend"]))

-----------------------------------------------------------------------------
(* The claims on add_standard_args *)

\* the site ids a call emits: the token after each --site-id
EmittedSiteIds ==
    LET at == SelectSeq([i \in 1..Len(std_out) |-> i], LAMBDA i : std_out[i] = W("--site-id"))
    IN  [k \in 1..Len(at) |-> std_out[at[k] + 1]]

\* C8: the call emits one --site-id pair for each entry of master ++
\* satellites that is not blank once stripped, in the list's order and with
\* the stripped value; master "a,b" with no satellites gives a then b.
C8_SiteIds ==
    pc = "std_done" =>
       LET kept == SelectSeq(stage_site_ids(profile, "wake"), LAMBDA x : Strip(x) # <<>>)
       IN  /\ EmittedSiteIds = [k \in 1..Len(kept) |-> quote(Strip(kept[k]))]
           /\ (profile["mqtt.site_id"] = S(<<"a", ",", "b">>) /\ profile["wake.satellite_site_ids"] = S(<<>>)) =>
                 EmittedSiteIds = <<W("a"), W("b")>>

\* C8 witness: a call whose list has blank entries and satellites, with more
\* than two ids emitted.
C8_Witness ==
    /\ pc = "std_done"
    /\ profile["mqtt.site_id"] = S(<<"a", ",", " ", ",", "b">>)
    /\ profile["wake.satellite_site_ids"] # S(<<>>)
    /\ Len(EmittedSiteIds) = 4

\* the place of each flag in the order the specification gives
FlagRank ==
    [f \in {"--debug", "--host", "--port", "--site-id", "--username", "--password", "--tls", "--tls-ca-certs",
            "--tls-cert-reqs", "--tls-certfile", "--tls-keyfile", "--tls-ciphers", "--tls-version", "--log-format"} |->
        CASE f = "--debug" -> 1 [] f = "--host" -> 2 [] f = "--port" -> 3 [] f = "--site-id" -> 4
          [] f = "--username" -> 5 [] f = "--password" -> 6 [] f = "--tls" -> 7 [] f = "--tls-ca-certs" -> 8
          [] f = "--tls-cert-reqs" -> 9 [] f = "--tls-certfile" -> 10 [] f = "--tls-keyfile" -> 11
          [] f = "--tls-ciphers" -> 12 [] f = "--tls-version" -> 13 [] OTHER -> 14]

\* the positions of std_out that hold a flag
FlagAt == {i \in 1..Len(std_out) : Len(std_out[i]) = 1 /\ std_out[i][1] \in DOMAIN FlagRank}

\* whether the flag was emitted
Emitted(flag) == \E i \in FlagAt : std_out[i] = W(flag)

\* C9: the tokens appended are --debug, --host h, --port p, the site id
\* pairs, --username and --password only with a user name, --tls and the set
\* sub-fields in the order ca-certs, cert-reqs, certfile, keyfile, ciphers,
\* version only with TLS enabled, and --log-format only with a format; no flag
\* but --site-id comes twice and an absent or empty sub-field gives no token.
C9_TokenOrder ==
    pc = "std_done" =>
       /\ SubSeq(std_out, 1, 6) = <<W("service"), W("--debug"), W("--host"), std_in.mqtt_host,
                                    W("--port"), IntStr(std_in.mqtt_port)>>
       /\ \A i, j \in FlagAt :
             i < j => \/ FlagRank[std_out[i][1]] < FlagRank[std_out[j][1]]
                      \/ (std_out[i] = W("--site-id") /\ std_out[j] = W("--site-id"))
       /\ \A i \in FlagAt : (std_out[i] \notin {W("--debug"), W("--tls")}) => (i < Len(std_out) /\ i + 1 \notin FlagAt)
       /\ Emitted("--username") <=> std_in.mqtt_username # <<>>
       /\ Emitted("--password") <=> std_in.mqtt_username # <<>>
       /\ Emitted("--tls") <=> profile["mqtt.tls.enabled"] = B(TRUE)
       /\ \A k \in TlsKeys :
             LET flag == CASE k = "mqtt.tls.ca_certs" -> "--tls-ca-certs" [] k = "mqtt.tls.cert_reqs" -> "--tls-cert-reqs"
                           [] k = "mqtt.tls.certfile" -> "--tls-certfile" [] k = "mqtt.tls.keyfile" -> "--tls-keyfile"
                           [] k = "mqtt.tls.ciphers" -> "--tls-ciphers" [] OTHER -> "--tls-version"
             IN  Emitted(flag) <=>
                    (profile["mqtt.tls.enabled"] = B(TRUE) /\ k \in DOMAIN profile /\ profile[k] # S(<<>>))
       /\ Emitted("--log-format") <=> profile["logging.format"] # S(<<>>)
       /\ Len(std_out) = 1 + Cardinality(FlagAt) + Cardinality({i \in FlagAt : std_out[i] \notin {W("--debug"), W("--tls")}})

\* C9 witness: a call with credentials, TLS enabled with all six sub-fields
\* set, one of them empty, site ids and a log format.
C9_Witness ==
    /\ pc = "std_done"
    /\ std_in.mqtt_username # <<>>
    /\ profile["mqtt.tls.enabled"] = B(TRUE)
    /\ TlsKeys \subseteq DOMAIN profile
    /\ profile["mqtt.tls.keyfile"] = S(<<>>)
    /\ Emitted("--tls-certfile") /\ Emitted("--tls-version") /\ Emitted("--site-id") /\ Emitted("--log-format")

-----------------------------------------------------------------------------
(* The claims on the broker port *)

\* C11 (as the specification states it): with an mqtt.port that is no
\* integer neither conversion aborts on the port, and with the external broker
\* every stage of both outputs gets port 1883.
C11_PortFallback ==
    mqtt_port_raises(profile) =>
       /\ ~(pc = "failed" /\ loc.i > Len(Stages))
       /\ remote_mqtt(profile) =>
             /\ \A i \in StageHeaders(conf_file.lines) :
                   BrokerIs(conf_file.lines[i + 1], Head(Str(Get(profile, "mqtt.host", S(W("localhost"))))), 1883)
             /\ \A i \in 1..Len(services) :
                   BrokerIs(services[i].command, Head(Str(Get(profile, "mqtt.host", S(W("localhost"))))), 1883)

-----------------------------------------------------------------------------
(* The claims on add_udp_audio_settings *)

\* the tuples of the udp_audio setting
UdpTuplesOf == Split(Str(profile["wake.porcupine.udp_audio"]), ",")

\* a tuple of one to three fields whose port is an integer
UdpValid(t) ==
    LET fields == Split(t, ":")
    IN  Len(fields) \in 1..3 /\ IsIntStr(IF Len(fields) = 1 THEN fields[1] ELSE fields[2])

\* the group the specification gives for a valid tuple
UdpGroup(t) ==
    LET fields == Split(t, ":")
        default == Split(Str(profile["mqtt.site_id"]), ",")[1]
    IN  <<W("--udp-audio"),
          quote(IF Len(fields) = 1 THEN W("127.0.0.1") ELSE fields[1]),
          IntStr(ParseInt(IF Len(fields) = 1 THEN fields[1] ELSE fields[2])),
          quote(IF Len(fields) = 3 THEN fields[3] ELSE default)>>

\* the --udp-audio groups a call emitted, in order
EmittedUdpGroups ==
    LET at == SelectSeq([i \in 1..Len(std_out) |-> i], LAMBDA i : std_out[i] = W("--udp-audio"))
    IN  [k \in 1..Len(at) |-> SubSeq(std_out, at[k], at[k] + 3)]

C13_BadTupleSkipped ==
    pc \in {"udp_done", "failed"} =>
       LET valid == SelectSeq(UdpTuplesOf, UdpValid)
       IN  /\ pc = "udp_done"
           /\ EmittedUdpGroups = [k \in 1..Len(valid) |-> UdpGroup(valid[k])]

-----------------------------------------------------------------------------
(* The claims on the snowboy variant of get_wake *)

\* the model names the profile lists
ListedModels ==
    Split(IF "wake.snowboy.model" \in DOMAIN profile THEN Str(profile["wake.snowboy.model"]) ELSE W("snowboy.umdl"), ",")

\* the --model groups of a command, in order: the four tokens after each --model
ModelGroups(command) ==
    LET at == SelectSeq([i \in 1..Len(command) |-> i], LAMBDA i : command[i] = W("--model"))
    IN  [k \in 1..Len(at) |-> SubSeq(command, at[k] + 1, at[k] + 4)]

\* one value of a model: its own when model_settings defines it, else the stage-wide one
ModelValue(name, key, stage_wide) ==
    LET all == IF "wake.snowboy.model_settings" \in DOMAIN profile THEN profile["wake.snowboy.model_settings"].d ELSE <<>>
        own == IF \E i \in 1..Len(all) : all[i][1] = name
               THEN all[CHOOSE i \in 1..Len(all) : all[i][1] = name][2].d ELSE <<>>
    IN  IF \E i \in 1..Len(own) : own[i][1] = W(key)
        THEN Str(own[CHOOSE i \in 1..Len(own) : own[i][1] = W(key)][2])
        ELSE stage_wide

\* the group the specification gives for a model name
ModelGroup(name) ==
    <<quote(name),
      ModelValue(name, "sensitivity",
                 IF "wake.snowboy.sensitivity" \in DOMAIN profile THEN Str(profile["wake.snowboy.sensitivity"]) ELSE W("0.5")),
      ModelValue(name, "audio_gain",
                 IF "wake.snowboy.audio_gain" \in DOMAIN profile THEN FloatStr(profile["wake.snowboy.audio_gain"])
                 ELSE <<"1", ".", "0">>),
      ModelValue(name, "apply_frontend",
                 IF "wake.snowboy.apply_frontend" \in DOMAIN profile /\ profile["wake.snowboy.apply_frontend"] = B(TRUE)
                 THEN <<"T", "r", "u", "e">> ELSE <<"F", "a", "l", "s", "e">>)>>

\* C14: a call of the snowboy builder emits one --model group for each
\* listed model name, in list order, and each of sensitivity, audio_gain and
\* apply_frontend is the model's own value of model_settings as the profile held
\* it before the call, else the stage-wide value (0.5, 1.0, False when unset).
C14_ModelGroups ==
    [][pc = "wake" => ModelGroups(std_out') = [k \in 1..Len(ListedModels) |-> ModelGroup(ListedModels[k])]]_vars

\* C14 witness: two models were listed, the first with a sensitivity of its
\* own, stage-wide values are set, and the call emitted two groups.
C14_Witness ==
    /\ pc = "wake_done"
    /\ "wake.snowboy.model_settings" \in DOMAIN profile
    /\ "wake.snowboy.audio_gain" \in DOMAIN profile
    /\ Len(ListedModels) = 2
    /\ ListedModels[1] = W("m1.umdl")
    /\ ListedModels[2] # W("m1.umdl")
    /\ Len(ModelGroups(std_out)) = 2
    /\ ModelGroups(std_out)[1][2] = W("0.8")
    /\ ModelGroups(std_out)[2][3] = <<"2", ".", "0">>

\* C15 (as the specification states it): the name in each --model group is
\* the path of the model under <user profiles dir>/<profile name>/.
C15_NamesResolved ==
    pc = "wake_done" =>
       /\ Len(ModelGroups(std_out)) = Len(ListedModels)
       /\ \A k \in 1..Len(ListedModels) :
             ModelGroups(std_out)[k][1] = quote(env.user_profiles_dir \o <<"/">> \o env.name \o <<"/">> \o ListedModels[k])

\* C15 (amended): the name in each --model group is the name as the profile
\* lists it, shell-quoted; only the --model-dir argument is the path
\* <user profiles dir>/<profile name>/snowboy.
C15_NamesAsListed ==
    pc = "wake_done" =>
       /\ Len(ModelGroups(std_out)) = Len(ListedModels)
       /\ \A k \in 1..Len(ListedModels) : ModelGroups(std_out)[k][1] = quote(ListedModels[k])
       /\ SubSeq(std_out, 2, 3) = <<W("--model-dir"), env.user_profiles_dir \o <<"/">> \o env.name \o <<"/", "snowboy">>>>

\* C15 witness: a call that listed a name with a space and another one.
C15_Witness ==
    /\ pc = "wake_done"
    /\ Len(ListedModels) = 2
    /\ ListedModels[1] = <<"my", " ", "model">>
    /\ ListedModels[2] = W("m2.pmdl")
    /\ Len(ModelGroups(std_out)) = 2

-----------------------------------------------------------------------------
(* The claims on what a run reads and leaves *)

\* whether a token list survives the command line: the tokens are joined with
\* single spaces, so shlex.split gives the list back, one argument for each
\* token, exactly when every token alone splits into one argument and leaves no
\* quotation open
RoundTrips(command) ==
    \A i \in 1..Len(command) : ShlexSplit(command[i]).ok /\ Len(ShlexSplit(command[i]).tokens) = 1

\* C16: the token list a builder returns for the stage profile_to_conf
\* is at survives the round trip through the command line: shell-splitting the
\* tokens joined with single spaces gives back one argument for each token.
C16_RoundTrip ==
    (pc = "conf_stage" /\ loc.i <= Len(Stages) /\ enabled(profile, Stages[loc.i].stage))
       => RoundTrips(get_command(Stages[loc.i].stage, profile, env, loc.m).cmd)

\* C17: no step of profile_to_conf or profile_to_docker changes the
\* profile: every path holds the same value after the step as before it.
C17_ProfileKept == [][profile' = profile]_vars

\* C18: when profile_to_conf has run, then profile_to_docker, then
\* profile_to_conf again on the same profile, the supervisor output of the
\* second run is the output of the first, line for line.
C18_Repeatable ==
    (std_out # <<>> /\ pc \in {"docker_open", "docker_mqtt", "docker_stage", "done"}) => conf_file.lines = std_out

\* C18 witness: both runs are over for a snowboy profile whose per-model
\* settings the first run has filled up, and the output has its --model groups.
C18_Witness ==
    /\ pc = "done"
    /\ std_out # <<>>
    /\ system_of(profile, "wake") = S(W("snowboy"))
    /\ "wake.snowboy.model_settings" \in DOMAIN profile
    /\ \E i \in 1..Len(profile["wake.snowboy.model_settings"].d) :
          /\ profile["wake.snowboy.model_settings"].d[i][1] = <<"my", " ", "model">>
          /\ Len(profile["wake.snowboy.model_settings"].d[i][2].d) = 3
    /\ HasWord(CommandOf(std_out, "wake_word"), "--model")

-----------------------------------------------------------------------------
(* The claims on the compose services *)

\* whether a service is as the specification gives it: the broker without
\* depends_on, every other service depending on mqtt alone, all with a tty
Wired(s) ==
    /\ "tty" \in s.has
    /\ s.tty
    /\ IF s.name = "mqtt" THEN "depends_on" \notin s.has
       ELSE "depends_on" \in s.has /\ s.depends_on = <<W("mqtt")>>

\* C19: every service of the compose output other than the broker has
\* depends_on = [mqtt] and tty: true, and the broker service mqtt has no
\* depends_on; this holds of the services as they are collected and as dumped.
C19_DependsOn ==
    /\ \A i \in 1..Len(services) : Wired(services[i])
    /\ \A i \in 1..Len(yml_file.services) : Wired(yml_file.services[i])

\* C19 witness: a compose file is dumped with the broker and at least
\* three stage services.
C19_Witness ==
    /\ pc = "done"
    /\ HasService(yml_file.services, "mqtt")
    /\ Len(yml_file.services) >= 4

\* the stages both renderers emitted
EmittedByBoth ==
    {i \in DockerStages : HasProgram(conf_file.lines, Stages[i].program) /\ HasService(yml_file.services, Stages[i].service)}

\* the compose service of a stage
ServiceOf(i) == yml_file.services[CHOOSE k \in 1..Len(yml_file.services) : yml_file.services[k].name = Stages[i].service]

\* C20: with an external broker and an integer mqtt.port, for every stage
\* that both renderers emit the compose image is rhasspy/<program token> and the
\* supervisor command line is the program token, one space and the compose
\* command string.
C20_SameCommand ==
    (pc = "done" /\ remote_mqtt(profile) /\ ~mqtt_port_raises(profile)) =>
       \A i \in EmittedByBoth :
          /\ SubSeq(ServiceOf(i).image, 1, 2) = <<"rhasspy", "/">>
          /\ CommandOf(conf_file.lines, Stages[i].program)
                = <<"command=">> \o SubSeq(ServiceOf(i).image, 3, Len(ServiceOf(i).image)) \o <<" ">> \o ServiceOf(i).command

\* C20 witness: an external-broker run is over with a port of its own and
\* at least five stages emitted by both renderers.
C20_Witness ==
    /\ pc = "done"
    /\ remote_mqtt(profile)
    /\ "mqtt.port" \in DOMAIN profile
    /\ ~mqtt_port_raises(profile)
    /\ Cardinality(EmittedByBoth) >= 5

-----------------------------------------------------------------------------
(* The claims on single variants *)

\* whether profile_to_conf has returned
ConfWritten == pc \in {"docker_open", "docker_mqtt", "docker_stage", "done"}

\* how many stanzas of a program the conf file holds
StanzaCount(lines, program) == Cardinality({i \in Headers(lines) : lines[i] = ProgramHeader(program)})

\* whether a flag stands in a command line followed by a space and the value
FlagValue(line, flag, value) ==
    \E i \in 1..Len(line) : line[i] = flag /\ SubSeq(line, i + 1, i + Len(value) + 1) = <<" ">> \o value

\* C21: with wake.system = porcupine, the internal broker and local port
\* 12183, the supervisor output of a finished profile_to_conf holds exactly one
\* broker stanza, with priority=0, and exactly one wake-word stanza, whose
\* program token is rhasspy-wake-porcupine-hermes and which carries
\* --sensitivity 0.5 when wake.porcupine.sensitivity is unset, whether or not a
\* keyword path is set.
C21_Porcupine ==
    (ConfWritten /\ system_of(profile, "wake") = S(W("porcupine")) /\ ~remote_mqtt(profile)
        /\ env.local_mqtt_port = 12183) =>
       /\ StanzaCount(conf_file.lines, "mqtt") = 1
       /\ StanzaOf(conf_file.lines, "mqtt")[3] = W("priority=0")
       /\ StanzaCount(conf_file.lines, "wake_word") = 1
       /\ SubSeq(CommandOf(conf_file.lines, "wake_word"), 1, 3) = <<"command=", "rhasspy-wake-porcupine-hermes", " ">>
       /\ "wake.porcupine.sensitivity" \notin DOMAIN profile
             => FlagValue(CommandOf(conf_file.lines, "wake_word"), "--sensitivity", W("0.5"))

\* C21 witness: such a run is over and no keyword path and no sensitivity
\* was set.
C21_Witness ==
    /\ pc = "done"
    /\ system_of(profile, "wake") = S(W("porcupine"))
    /\ ~remote_mqtt(profile)
    /\ env.local_mqtt_port = 12183
    /\ "wake.porcupine.keyword_path" \notin DOMAIN profile
    /\ "wake.porcupine.sensitivity" \notin DOMAIN profile
    /\ FlagValue(CommandOf(conf_file.lines, "wake_word"), "--keyword", W("porcupine.ppn"))

\* C22: a run fails only in the builder of a stage whose variant id is
\* not recognized; no setting of a recognized variant makes profile_to_conf or
\* profile_to_docker raise.
C22_OnlyUnknownRaises == pc = "failed" => (loc.i \in 1..Len(Stages) /\ Unknown(loc.i))

\* the standard argument block of the stage profile_to_conf is at
StandardBlock(stage) == Std(profile, <<>>, stage_site_ids(profile, stage), loc.m)

\* whether a command holds the standard block once and ends with it
EndsWithBlock(command, block) ==
    /\ Cardinality({i \in 1..Len(command) : command[i] = W("--debug")}) = 1
    /\ Len(command) >= Len(block)
    /\ SubSeq(command, Len(command) - Len(block) + 1, Len(command)) = block

\* C23: every non-empty command a builder returns for the stage
\* profile_to_conf is at holds the standard argument block (from --debug on)
\* exactly once, and the block is the end of the command: no variant-specific
\* argument follows it.
C23_BlockLast ==
    (pc = "conf_stage" /\ loc.i <= Len(Stages) /\ enabled(profile, Stages[loc.i].stage)
        /\ ~get_command(Stages[loc.i].stage, profile, env, loc.m).raised
        /\ get_command(Stages[loc.i].stage, profile, env, loc.m).cmd # <<>>)
       => EndsWithBlock(get_command(Stages[loc.i].stage, profile, env, loc.m).cmd, StandardBlock(Stages[loc.i].stage))

-----------------------------------------------------------------------------
(* The claims on the site ids of the UDP audio block *)

\* the stage's effective site ids: master ++ satellites, stripped, the blank ones dropped
EffectiveSiteIds ==
    SelectSeq([i \in 1..Len(stage_site_ids(profile, "wake")) |-> Strip(stage_site_ids(profile, "wake")[i])],
              LAMBDA id : id # <<>>)

\* the values that follow --site-id in the command, in order
SiteIdValues ==
    LET at == SelectSeq([i \in 1..Len(std_out) |-> i], LAMBDA i : std_out[i] = W("--site-id"))
    IN  [k \in 1..Len(at) |-> std_out[at[k] + 1]]

\* C24: in a command with UDP audio groups, the site id of a group whose
\* tuple names none is the first effective site id of the stage: it is not
\* blank, and it is the first --site-id value of the same command.
C24_DefaultSiteId ==
    pc = "udp_done" =>
       \A k \in 1..Len(EmittedUdpGroups) :
          Len(Split(UdpTuplesOf[k], ":")) < 3 =>
             /\ EffectiveSiteIds # <<>>
             /\ EmittedUdpGroups[k][4] = quote(EffectiveSiteIds[1])
             /\ SiteIdValues # <<>>
             /\ EmittedUdpGroups[k][4] = SiteIdValues[1]

-----------------------------------------------------------------------------
(* The claims on the coverage of the two renderers *)

\* C25: every service name listed in a depends_on of the dumped compose
\* document is the name of a service of that document, with the internal and
\* with an external broker.
C25_DependsOnDefined ==
    pc = "done" =>
       \A i \in 1..Len(yml_file.services) :
          "depends_on" \in yml_file.services[i].has =>
             \A k \in 1..Len(yml_file.services[i].depends_on) :
                \E j \in 1..Len(yml_file.services) : W(yml_file.services[j].name) = yml_file.services[i].depends_on[k]

\* C26: when both renderers have run, a stage has a stanza in the
\* supervisor output exactly when it has a service in the compose output, and
\* so does the broker.
C26_SameStages ==
    pc = "done" =>
       /\ \A i \in 1..Len(Stages) :
             HasProgram(conf_file.lines, Stages[i].program)
                <=> (Stages[i].service # "" /\ HasService(yml_file.services, Stages[i].service))
       /\ HasProgram(conf_file.lines, "mqtt") <=> HasService(yml_file.services, "mqtt")

-----------------------------------------------------------------------------
(* The claims on udp_site_info *)

\* the udp_site_info map of the profile
UdpSiteInfoOf ==
    IF "wake.porcupine.udp_site_info" \in DOMAIN profile THEN profile["wake.porcupine.udp_site_info"].d ELSE <<>>

\* how often a flag is followed by the site in the command
PairCount(flag, site) ==
    Cardinality({i \in 1..(Len(std_out) - 1) : std_out[i] = W(flag) /\ std_out[i + 1] = site})

\* how often the specification has it: once when the site's flag is set, else never
PairDue(info, key) == IF DictHas(info, W(key)) /\ DictGet(info, W(key), B(FALSE)) = B(TRUE) THEN 1 ELSE 0

\* C27: in a command built from a udp_audio list of valid tuples and a
\* udp_site_info map, each site with raw_audio set has exactly one
\* --udp-raw-audio pair and each site with forward_to_mqtt set has exactly one
\* --udp-forward-mqtt pair, however many tuples the list has.
C27_OnePairPerSite ==
    (pc = "udp_done" /\ \A t \in 1..Len(UdpTuplesOf) : UdpValid(UdpTuplesOf[t])) =>
       \A k \in 1..Len(UdpSiteInfoOf) :
          /\ PairCount("--udp-raw-audio", UdpSiteInfoOf[k][1]) = PairDue(UdpSiteInfoOf[k][2].d, "raw_audio")
          /\ PairCount("--udp-forward-mqtt", UdpSiteInfoOf[k][1]) = PairDue(UdpSiteInfoOf[k][2].d, "forward_to_mqtt")

\* the profile without the udp_site_info of the variants that are not selected
OwnInfoOnly ==
    [k \in DOMAIN profile \ {"wake." \o v \o ".udp_site_info" : v \in UdpVariants \ {profile["wake.system"].s[1]}}
        |-> profile[k]]

\* C28: the command get_wake built for the selected variant is the
\* command it builds when no other variant has a udp_site_info: the per-site
\* flags come from the selected variant's own udp_site_info alone.
C28_OwnSiteInfo ==
    pc = "wake_done" => std_out = get_command("wake", OwnInfoOnly, env, std_in).cmd

-----------------------------------------------------------------------------
(* The claims on the nanotts variant *)

\* C29: a call of get_text_to_speech for nanotts returns a command
\* whatever of language, langdir and locale is set, and with langdir set the
\* argument after -l is the langdir value.
C29_Nanotts ==
    pc \in {"tts_done", "failed"} =>
       /\ pc = "tts_done"
       /\ std_out # <<>>
       /\ "text_to_speech.nanotts.langdir" \in DOMAIN profile =>
             \E i \in 1..(Len(std_out) - 1) :
                std_out[i] = W("-l") /\ std_out[i + 1] = quote(Str(profile["text_to_speech.nanotts.langdir"]))

-----------------------------------------------------------------------------
(* The claims on the dialogue command *)

\* the command of the dialogue stage profile_to_conf is at
DialogueCommand == get_command("dialogue", profile, env, loc.m).cmd

\* the values that follow a flag in the dialogue command, in order
DialogueValues(flag) ==
    LET at == SelectSeq([i \in 1..(Len(DialogueCommand) - 1) |-> i], LAMBDA i : DialogueCommand[i] = W(flag))
    IN  [k \in 1..Len(at) |-> DialogueCommand[at[k] + 1]]

\* C30: the dialogue command profile_to_conf is about to print has
\* --no-sound entries exactly when sounds.system is dummy, one for each master
\* site id; every site id after --no-sound is non-blank and is a --site-id value
\* of the command; --sound entries stand only when sounds.system is not dummy
\* or dialogue.satellite_site_ids is set.
C30_NoSound ==
    (pc = "conf_stage" /\ loc.i <= Len(Stages) /\ Stages[loc.i].stage = "dialogue"
        /\ system_of(profile, "dialogue") = S(W("rhasspy"))) =>
       /\ (DialogueValues("--no-sound") # <<>>) <=> (Get(profile, "sounds.system", S(W("dummy"))) = S(W("dummy")))
       /\ DialogueValues("--no-sound") # <<>> => Len(DialogueValues("--no-sound")) = Len(master_site_ids(profile))
       /\ \A k \in 1..Len(DialogueValues("--no-sound")) :
             /\ Strip(DialogueValues("--no-sound")[k]) # <<>>
             /\ \E j \in 1..Len(DialogueValues("--site-id")) :
                   DialogueValues("--site-id")[j] = quote(DialogueValues("--no-sound")[k])
       /\ DialogueValues("--sound") # <<>> =>
             \/ Get(profile, "sounds.system", S(W("dummy"))) # S(W("dummy"))
             \/ Truthy(Get(profile, "dialogue.satellite_site_ids", None))

====
